---- MODULE Spec2Model ----
(***************************************************************************)
(* CarrierWatch: identity resolution and risk scoring engine.              *)
(*                                                                         *)
(* The store is a PostgreSQL database; the pipeline jobs are sequential    *)
(* batch programs that read and write it:                                  *)
(*   pipeline/apply_risk_flags.py    the risk ledger (SpecLedger)          *)
(*   pipeline/principals_ingest.py   officer tier flags at ingest          *)
(*   pipeline/detect_chameleons.py   chameleon pair flags                  *)
(*   pipeline/detect_fraud_rings.py  fraud ring detector (SpecRings)       *)
(*   pipeline/cluster_officers.py    identity cluster resolver             *)
(*                                   (SpecClusters)                        *)
(* A table is a set of rows (records); a nullable integer or array column  *)
(* holds <<>> for SQL NULL and <<v>> for the value v, a nullable text      *)
(* column holds NullText for NULL, a nullable date holds NullDate.         *)
(***************************************************************************)
EXTENDS Integers, Sequences, FiniteSets, TLC

VARIABLES
    \* ---- the store ----
    carriers,                  \* carriers: dot_number -> base attributes
    risk_score,                \* carriers.risk_score: dot_number -> nullable int
    risk_flags,                \* carriers.risk_flags: dot_number -> nullable text[]
    fleet_size_bucket,         \* carriers.fleet_size_bucket: dot_number -> text
    peer_percentiles,          \* carriers.peer_*_percentile: dot_number -> nullable pair
    address_clusters,          \* address_clusters rows
    carrier_principals,        \* carrier_principals rows
    clusters_exists,           \* the table officer_network_clusters exists
    officer_network_clusters,  \* officer_network_clusters rows (committed)
    chameleon_pairs,           \* chameleon_pairs rows
    fraud_rings,               \* fraud_rings rows
    violations_present,        \* inspection_violations exists and has rows
    \* ---- apply_risk_flags.py main ----
    lpc,                       \* position: idle, reset, rules, done, failed, killed
    rule_idx,                  \* index of the rule whose batch loop is running
    reset_mode,                \* args.reset of the current run
    has_clusters,              \* main's has_clusters
    has_violations,            \* main's has_violations
    executed,                  \* rules whose update ran in the current run
    failed_at,                 \* where a failed run raised: rule index, 0 in the reset
    \* ---- bookkeeping of runs (history) ----
    jobs,                      \* number of jobs started so far
    streak,                    \* incremental runs completed in a row, no job between
    incr_snap,                 \* ledger at the end of the last run of the streak
    reset_snap,                \* ledger and data at the end of the first reset run
    \* ---- detect_fraud_rings.py main ----
    rpc,                       \* position of the detector
    edges,                     \* strong_edges, in dict order: <<[pair, officers]>>
    edge_idx,                  \* index of the edge find_rings unions next
    uf,                        \* find_rings' UnionFind: [parent, rank, nodes]
    rings,                     \* find_rings' result, in dict order: <<[root, members]>>
    \* ---- cluster_officers.py main ----
    cpc,                       \* position of the resolver
    officers,                  \* officers fetched from officer_carrier_counts
    batch_size,                \* BATCH_SIZE of the run
    batch_start,               \* batch_start of the batch loop
    names,                     \* names of the batch still to process
    insert_rows,               \* insert_rows of the current batch (uncommitted)
    processed,                 \* officer names the current run has clustered (history)
    \* ---- detect_chameleons.py main ----
    hpc,                       \* position of the chameleon detector
    \* ---- a killed ledger run and its resumption (history) ----
    resume,                    \* [phase, backup, killed, result]
    \* ---- the confidence tiers as functions ----
    tier_in,                   \* the inputs of the two confidence CASEs
    tier_out,                  \* their results, Null before they are computed
    \* ---- the pair loops as functions ----
    group_in,                  \* one group of carriers: [size, signal]
    pairs_out                  \* the pairs generated from it, Null before

storeVars ==
    <<carriers, risk_score, risk_flags, fleet_size_bucket, peer_percentiles,
      address_clusters, carrier_principals, clusters_exists,
      officer_network_clusters, chameleon_pairs, fraud_rings, violations_present>>

ledgerVars ==
    <<lpc, rule_idx, reset_mode, has_clusters, has_violations, executed, failed_at>>

histVars ==
    <<jobs, streak, incr_snap, reset_snap>>

ringVars ==
    <<rpc, edges, edge_idx, uf, rings>>

clusterVars ==
    <<cpc, officers, batch_size, batch_start, names, insert_rows, processed>>

chameleonVars ==
    <<hpc>>

resumeVars ==
    <<resume>>

tierVars ==
    <<tier_in, tier_out>>

pairVars ==
    <<group_in, pairs_out>>

vars ==
    <<storeVars, ledgerVars, histVars, ringVars, clusterVars,
      chameleonVars, resumeVars, tierVars, pairVars>>

-----------------------------------------------------------------------------
(* Bounds of the model.                                                    *)

\* rows of the carriers table in the ledger runs: dot numbers 1..NumCarriers
NumCarriers ==
    2

\* rows one pass of batch_update may update (the LIMIT; 5000 in production)
LedgerBatch ==
    1

\* jobs (ledger runs, ingests, detector runs, data changes) per behaviour
MaxJobs ==
    3

\* rows of the carriers table in the detector runs: dot numbers 1..NumRingCarriers
NumRingCarriers ==
    6

\* rows of the carriers table in the resolver runs
NumClusterCarriers ==
    4

\* carriers in the store of the chameleon detector runs
NumChameleonCarriers ==
    3

\* the signal counts, member counts, crash totals and fatality totals the
\* confidence CASEs are applied to
MaxSignalCount ==
    4

MaxMemberCount ==
    11

MaxCrashTotal ==
    6

MaxFatalityTotal ==
    1

\* carriers of one group handed to the pair loops, from two to this many
MaxGroupSize ==
    102

\* officers per batch of the resolver (BATCH_SIZE; 500 in production): the
\* runs take every batch size from 1 to this one
ClusterBatch ==
    2

\* the dot numbers of the carriers table
Carriers ==
    DOMAIN carriers

-----------------------------------------------------------------------------
(* SQL values.                                                             *)

NullText ==
    "<NULL>"

NullDate ==
    -1

Null ==
    <<>>

Some(v) ==
    <<v>>

\* COALESCE(x, d)
Coalesce(x, d) ==
    IF x = Null THEN d ELSE x[1]

\* f = ANY(arr)
AnyEq(f, arr) ==
    \E i \in 1..Len(arr) : arr[i] = f

\* how many times the array arr holds the flag f
Times(f, arr) ==
    Cardinality({i \in 1..Len(arr) : arr[i] = f})

\* array_append(arr, f)
ArrayAppend(arr, f) ==
    Append(arr, f)

Range(s) ==
    {s[i] : i \in 1..Len(s)}

Min2(a, b) ==
    IF a < b THEN a ELSE b

-----------------------------------------------------------------------------
(* The data the ledger reads.  Dates are day numbers; CURRENT_DATE is      *)
(* Today.                                                                  *)

Today ==
    1000

\* INTERVAL '1 year' before CURRENT_DATE, in days
OneYear ==
    365

\* operating_status ILIKE 'AUTHORIZED%': the statuses of the census file
\* ("AUTHORIZED FOR Property", "NOT AUTHORIZED", "OUT-OF-SERVICE")
IsAuthorized(status) ==
    status \in {"AUTHORIZED", "AUTHORIZED FOR Property", "authorized for HHG"}

\* physical_address ILIKE '%P.O.%' OR ... OR physical_address ILIKE 'BOX %'
IsPoBox(addr) ==
    addr \in {"PO BOX 12", "P.O. BOX 7", "P O BOX 3", "POB 9", "BOX 44"}

\* physical_address IS NULL OR TRIM(physical_address) = ''
IsBlankAddress(addr) ==
    addr \in {NullText, "", "  "}

\* a carrier row of an ordinary domestic carrier at an address of its own:
\* apart from the officer rules, no rule's data matches
DomesticCarrier ==
    [physical_country |-> "US", mailing_country |-> "US",
     address_hash |-> "H2", physical_address |-> "12 MAIN ST",
     phone |-> "5551234567", physical_state |-> "TX",
     operating_status |-> "AUTHORIZED FOR Property", operating_status_code |-> "A",
     authority_grant_date |-> 100, rev_pend |-> FALSE,
     fatal_crashes |-> 0, total_crashes |-> 1,
     vehicle_oos_rate |-> 10, driver_oos_rate |-> 5,
     total_inspections |-> 4, eld_violations |-> 0,
     insurance_history |-> {[effective_date |-> 50, cancl_effective_date |-> NullDate]},
     ppp_loan_total |-> 0, ppp_loan_count |-> 0, ppp_forgiven_total |-> 0,
     power_units |-> 3]

\* a carrier domiciled abroad, newly authorized, with a fatal crash
ForeignCarrier ==
    [physical_country |-> "MX", mailing_country |-> "MX",
     address_hash |-> "H1", physical_address |-> "AV JUAREZ 5",
     phone |-> "5559990000", physical_state |-> "TX",
     operating_status |-> "AUTHORIZED", operating_status_code |-> "A",
     authority_grant_date |-> 900, rev_pend |-> FALSE,
     fatal_crashes |-> 1, total_crashes |-> 2,
     vehicle_oos_rate |-> 35, driver_oos_rate |-> 0,
     total_inspections |-> 3, eld_violations |-> 2,
     insurance_history |-> {},
     ppp_loan_total |-> 0, ppp_loan_count |-> 0, ppp_forgiven_total |-> 0,
     power_units |-> 1]

\* an inactive domestic carrier with a foreign mailing address, a PO box,
\* revoked authority, crashes, out-of-service rates and a large forgiven loan
ShellCarrier ==
    [physical_country |-> "", mailing_country |-> "MX",
     address_hash |-> "H1", physical_address |-> "PO BOX 12",
     phone |-> "5551234567", physical_state |-> "TX",
     operating_status |-> "NOT AUTHORIZED", operating_status_code |-> "I",
     authority_grant_date |-> 600, rev_pend |-> TRUE,
     fatal_crashes |-> 0, total_crashes |-> 4,
     vehicle_oos_rate |-> 40, driver_oos_rate |-> 25,
     total_inspections |-> 2, eld_violations |-> 15,
     insurance_history |-> {[effective_date |-> 50, cancl_effective_date |-> 700]},
     ppp_loan_total |-> 150000, ppp_loan_count |-> 1, ppp_forgiven_total |-> 150000,
     power_units |-> 0]

\* an authorized domestic carrier with no address, lapsed insurance and a
\* small loan
GhostCarrier ==
    [physical_country |-> NullText, mailing_country |-> "",
     address_hash |-> NullText, physical_address |-> "",
     phone |-> "", physical_state |-> NullText,
     operating_status |-> "authorized for HHG", operating_status_code |-> "A",
     authority_grant_date |-> NullDate, rev_pend |-> FALSE,
     fatal_crashes |-> 0, total_crashes |-> 0,
     vehicle_oos_rate |-> 0, driver_oos_rate |-> 0,
     total_inspections |-> 5, eld_violations |-> 2,
     insurance_history |-> {[effective_date |-> 50, cancl_effective_date |-> 700],
                            [effective_date |-> 1200, cancl_effective_date |-> NullDate]},
     ppp_loan_total |-> 50000, ppp_loan_count |-> 1, ppp_forgiven_total |-> 0,
     power_units |-> 30]

CarrierRows ==
    {DomesticCarrier, ForeignCarrier, ShellCarrier, GhostCarrier}

\* carrier_count values of a cluster, one per tier: below 5, 5+, 10+, 25+
TierCounts ==
    {3, 7, 12, 30}

\* k carriers outside the rows the ledger runs follow: their dot numbers
\* count in carrier_principals and in member_dot_numbers, their own rows
\* (domestic, no flag) are left out of the carriers table of the model
Fillers(k) ==
    {100 + i : i \in 1..k}

\* carrier_principals rows: officer name "A" on k dot numbers, the carriers
\* among them; officer "B" on carrier 1 alone
PrincipalsOf(k) ==
    {[officer_name_normalized |-> "A", dot_number |-> d,
      officer_position |-> "Officer 1", phone |-> NullText,
      email |-> NullText] : d \in Carriers \cup Fillers(k - Cardinality(Carriers))}
    \cup {[officer_name_normalized |-> "B", dot_number |-> 1,
           officer_position |-> "Officer 2", phone |-> NullText,
           email |-> NullText]}

\* officer_network_clusters rows for PrincipalsOf(k): the resolver split
\* officer "A" into the singleton identity of carrier 2 and the identity of
\* the other k - 1 dot numbers
ClusterRowsOf(k) ==
    {[officer_name_normalized |-> "A", cluster_index |-> 0,
      member_dot_numbers |-> (Carriers \cup Fillers(k - Cardinality(Carriers))) \ {2},
      carrier_count |-> k - 1, link_signals |-> {"phone"}],
     [officer_name_normalized |-> "A", cluster_index |-> 1,
      member_dot_numbers |-> {2}, carrier_count |-> 1,
      link_signals |-> {"name_only"}]}

\* address_clusters rows: the spatial clustering gives address H1 k carriers
AddressClustersOf(k) ==
    {[address_hash |-> "H1", carrier_count |-> k]}

-----------------------------------------------------------------------------
(* apply_risk_flags.py: the candidate condition of each rule, that is the  *)
(* WHERE clause of its "flagged" query, for the carrier row c.             *)

Flags(c) ==
    Coalesce(risk_flags[c], <<>>)

\* NOT (f = ANY(COALESCE(c.risk_flags, '{}')))
NotFlagged(c, f) ==
    ~AnyEq(f, Flags(c))

\* physical_country IS NOT NULL AND physical_country != '' AND physical_country != 'US'
IsForeign(c) ==
    /\ carriers[c].physical_country # NullText
    /\ carriers[c].physical_country # ""
    /\ carriers[c].physical_country # "US"

\* physical_country = 'US' OR physical_country IS NULL OR physical_country = ''
IsDomestic(c) ==
    \/ carriers[c].physical_country = "US"
    \/ carriers[c].physical_country = NullText
    \/ carriers[c].physical_country = ""

\* carriers c JOIN address_clusters ac ON c.address_hash = ac.address_hash
\* WHERE ac.carrier_count >= k
AddressCountAtLeast(c, k) ==
    \E ac \in address_clusters :
        /\ carriers[c].address_hash # NullText
        /\ ac.address_hash = carriers[c].address_hash
        /\ ac.carrier_count >= k

\* unnest(member_dot_numbers) of the clusters with carrier_count >= k
InClusterOfAtLeast(c, k) ==
    \E onc \in officer_network_clusters :
        onc.carrier_count >= k /\ c \in onc.member_dot_numbers

\* GROUP BY officer_name_normalized HAVING COUNT(DISTINCT dot_number) >= k
\* over the carrier_principals rows P
NameCountIn(P, name) ==
    Cardinality({cp.dot_number : cp \in {r \in P : r.officer_name_normalized = name}})

NameCount(name) ==
    NameCountIn(carrier_principals, name)

HasNameOfAtLeast(c, k) ==
    \E cp \in carrier_principals :
        cp.dot_number = c /\ NameCount(cp.officer_name_normalized) >= k

NoOfficerTier(c) ==
    /\ NotFlagged(c, "OFFICER_25_PLUS")
    /\ NotFlagged(c, "OFFICER_10_PLUS")
    /\ NotFlagged(c, "OFFICER_5_PLUS")

AddressOverlap25(c) ==
    /\ AddressCountAtLeast(c, 25)
    /\ NotFlagged(c, "ADDRESS_OVERLAP_25+")

\* the ADDRESS_OVERLAP_10+ condition without the exclusion of the 25+ tier
AddressOverlap10OverTier(c) ==
    /\ AddressCountAtLeast(c, 10)
    /\ NotFlagged(c, "ADDRESS_OVERLAP_10+")

AddressOverlap10(c) ==
    /\ AddressCountAtLeast(c, 10)
    /\ NotFlagged(c, "ADDRESS_OVERLAP_25+")
    /\ NotFlagged(c, "ADDRESS_OVERLAP_10+")

AddressOverlap5(c) ==
    /\ AddressCountAtLeast(c, 5)
    /\ NotFlagged(c, "ADDRESS_OVERLAP_25+")
    /\ NotFlagged(c, "ADDRESS_OVERLAP_10+")
    /\ NotFlagged(c, "ADDRESS_OVERLAP_5+")

\* the officer tier rule of threshold k: identity clusters when has_clusters,
\* raw officer names otherwise
OfficerTier(c, k) ==
    /\ IF has_clusters THEN InClusterOfAtLeast(c, k) ELSE HasNameOfAtLeast(c, k)
    /\ NoOfficerTier(c)

ForeignCarrierRule(c) ==
    /\ IsForeign(c)
    /\ NotFlagged(c, "FOREIGN_CARRIER")

ForeignMailing(c) ==
    /\ IsDomestic(c)
    /\ carriers[c].mailing_country # NullText
    /\ carriers[c].mailing_country # ""
    /\ carriers[c].mailing_country # "US"
    /\ NotFlagged(c, "FOREIGN_MAILING")
    /\ NotFlagged(c, "FOREIGN_CARRIER")

ForeignLinkedAddress(c) ==
    /\ \E f \in Carriers :
          /\ IsForeign(f)
          /\ carriers[f].address_hash # NullText
          /\ carriers[c].address_hash = carriers[f].address_hash
    /\ IsDomestic(c)
    /\ NotFlagged(c, "FOREIGN_LINKED_ADDRESS")
    /\ NotFlagged(c, "FOREIGN_CARRIER")

\* identity-cluster-aware: a cluster with a foreign member; fallback: an
\* officer name that some foreign carrier has too
ForeignLinkedOfficer(c) ==
    /\ IF has_clusters
       THEN \E onc \in officer_network_clusters :
                /\ \E d \in onc.member_dot_numbers : d \in Carriers /\ IsForeign(d)
                /\ c \in onc.member_dot_numbers
       ELSE \E cp \in carrier_principals, fo \in carrier_principals :
                /\ fo.dot_number \in Carriers /\ IsForeign(fo.dot_number)
                /\ cp.officer_name_normalized = fo.officer_name_normalized
                /\ cp.dot_number = c
    /\ IsDomestic(c)
    /\ NotFlagged(c, "FOREIGN_LINKED_OFFICER")
    /\ NotFlagged(c, "FOREIGN_CARRIER")

\* an authority_history row of the carrier has a *_rev_pend = 'Y'
AuthorityRevoked(c) ==
    /\ carriers[c].rev_pend
    /\ NotFlagged(c, "AUTHORITY_REVOKED_REISSUED")

NewAuthority(c) ==
    /\ carriers[c].authority_grant_date # NullDate
    /\ carriers[c].authority_grant_date > Today - OneYear
    /\ NotFlagged(c, "NEW_AUTHORITY")

\* the FATAL_CRASHES condition without its NOT ... = ANY guard
FatalCrashesUnguarded(c) ==
    carriers[c].fatal_crashes > 0

FatalCrashes(c) ==
    /\ carriers[c].fatal_crashes > 0
    /\ NotFlagged(c, "FATAL_CRASHES")

HighCrashCount(c) ==
    /\ carriers[c].total_crashes >= 3
    /\ carriers[c].fatal_crashes = 0
    /\ NotFlagged(c, "HIGH_CRASH_COUNT")

HighVehicleOos(c) ==
    /\ carriers[c].vehicle_oos_rate > 30
    /\ carriers[c].total_inspections > 0
    /\ NotFlagged(c, "HIGH_VEHICLE_OOS")

HighDriverOos(c) ==
    /\ carriers[c].driver_oos_rate > 20
    /\ carriers[c].total_inspections > 0
    /\ NotFlagged(c, "HIGH_DRIVER_OOS")

\* the rule without its own-flag test
HighEldViolationRateUnguarded(c) ==
    \/ /\ carriers[c].total_inspections >= 3
       /\ 10 * carriers[c].eld_violations > 3 * carriers[c].total_inspections
    \/ /\ carriers[c].eld_violations >= 15
       /\ carriers[c].total_inspections < 3

\* eld_violations::float / total_inspections > 0.3 is 10 * eld > 3 * inspections
HighEldViolationRate(c) ==
    /\ \/ /\ carriers[c].total_inspections >= 3
          /\ 10 * carriers[c].eld_violations > 3 * carriers[c].total_inspections
       \/ /\ carriers[c].eld_violations >= 15
          /\ carriers[c].total_inspections < 3
    /\ NotFlagged(c, "HIGH_ELD_VIOLATION_RATE")

InsuranceLapse(c) ==
    /\ IsAuthorized(carriers[c].operating_status)
    /\ ~ \E ih \in carriers[c].insurance_history :
            /\ ih.effective_date <= Today
            /\ \/ ih.cancl_effective_date = NullDate
               \/ ih.cancl_effective_date > Today
    /\ carriers[c].insurance_history # {}
    /\ NotFlagged(c, "INSURANCE_LAPSE")

LargePppLoan(c) ==
    /\ carriers[c].ppp_loan_total > 100000
    /\ NotFlagged(c, "LARGE_PPP_LOAN")

PppLoan(c) ==
    /\ carriers[c].ppp_loan_count > 0
    /\ NotFlagged(c, "LARGE_PPP_LOAN")
    /\ NotFlagged(c, "PPP_LOAN")

PppForgivenCluster(c) ==
    /\ carriers[c].ppp_forgiven_total > 0
    /\ AddressCountAtLeast(c, 3)
    /\ NotFlagged(c, "PPP_FORGIVEN_CLUSTER")

PoBoxAddress(c) ==
    /\ IsPoBox(carriers[c].physical_address)
    /\ NotFlagged(c, "PO_BOX_ADDRESS")

NoPhysicalAddress(c) ==
    /\ IsBlankAddress(carriers[c].physical_address)
    /\ NotFlagged(c, "NO_PHYSICAL_ADDRESS")

InactiveStatus(c) ==
    /\ carriers[c].operating_status_code = "I"
    /\ AddressCountAtLeast(c, 3)
    /\ NotFlagged(c, "INACTIVE_STATUS")

\* the rules in the order main applies them: flag, points, and whether the
\* update is chunked (batch_update) or single (simple_update)
Rules ==
    << [flag |-> "ADDRESS_OVERLAP_25+", points |-> 50, batched |-> TRUE],
       [flag |-> "ADDRESS_OVERLAP_10+", points |-> 35, batched |-> TRUE],
       [flag |-> "ADDRESS_OVERLAP_5+", points |-> 20, batched |-> TRUE],
       [flag |-> "OFFICER_25_PLUS", points |-> 50, batched |-> TRUE],
       [flag |-> "OFFICER_10_PLUS", points |-> 35, batched |-> TRUE],
       [flag |-> "OFFICER_5_PLUS", points |-> 20, batched |-> TRUE],
       [flag |-> "FOREIGN_CARRIER", points |-> 45, batched |-> TRUE],
       [flag |-> "FOREIGN_MAILING", points |-> 30, batched |-> TRUE],
       [flag |-> "FOREIGN_LINKED_ADDRESS", points |-> 35, batched |-> TRUE],
       [flag |-> "FOREIGN_LINKED_OFFICER", points |-> 35, batched |-> TRUE],
       [flag |-> "AUTHORITY_REVOKED_REISSUED", points |-> 15, batched |-> TRUE],
       [flag |-> "NEW_AUTHORITY", points |-> 15, batched |-> TRUE],
       [flag |-> "FATAL_CRASHES", points |-> 25, batched |-> TRUE],
       [flag |-> "HIGH_CRASH_COUNT", points |-> 15, batched |-> TRUE],
       [flag |-> "HIGH_VEHICLE_OOS", points |-> 20, batched |-> TRUE],
       [flag |-> "HIGH_DRIVER_OOS", points |-> 15, batched |-> TRUE],
       [flag |-> "HIGH_ELD_VIOLATION_RATE", points |-> 25, batched |-> FALSE],
       [flag |-> "INSURANCE_LAPSE", points |-> 20, batched |-> TRUE],
       [flag |-> "LARGE_PPP_LOAN", points |-> 20, batched |-> TRUE],
       [flag |-> "PPP_LOAN", points |-> 10, batched |-> TRUE],
       [flag |-> "PPP_FORGIVEN_CLUSTER", points |-> 15, batched |-> TRUE],
       [flag |-> "PO_BOX_ADDRESS", points |-> 15, batched |-> TRUE],
       [flag |-> "NO_PHYSICAL_ADDRESS", points |-> 10, batched |-> TRUE],
       [flag |-> "INACTIVE_STATUS", points |-> 10, batched |-> TRUE] >>

NumRules ==
    Len(Rules)

\* the candidate condition of rule i
Candidate(i, c) ==
    CASE i = 1 -> AddressOverlap25(c)
      [] i = 2 -> AddressOverlap10(c)
      [] i = 3 -> AddressOverlap5(c)
      [] i = 4 -> OfficerTier(c, 25)
      [] i = 5 -> OfficerTier(c, 10)
      [] i = 6 -> OfficerTier(c, 5)
      [] i = 7 -> ForeignCarrierRule(c)
      [] i = 8 -> ForeignMailing(c)
      [] i = 9 -> ForeignLinkedAddress(c)
      [] i = 10 -> ForeignLinkedOfficer(c)
      [] i = 11 -> AuthorityRevoked(c)
      [] i = 12 -> NewAuthority(c)
      [] i = 13 -> FatalCrashes(c)
      [] i = 14 -> HighCrashCount(c)
      [] i = 15 -> HighVehicleOos(c)
      [] i = 16 -> HighDriverOos(c)
      [] i = 17 -> HighEldViolationRate(c)
      [] i = 18 -> InsuranceLapse(c)
      [] i = 19 -> LargePppLoan(c)
      [] i = 20 -> PppLoan(c)
      [] i = 21 -> PppForgivenCluster(c)
      [] i = 22 -> PoBoxAddress(c)
      [] i = 23 -> NoPhysicalAddress(c)
      [] i = 24 -> InactiveStatus(c)

Candidates(i) ==
    {c \in Carriers : Candidate(i, c)}

-----------------------------------------------------------------------------
(* apply_risk_flags.py: main.                                              *)

\* UPDATE carriers SET risk_score = COALESCE(risk_score, 0) + points,
\*   risk_flags = array_append(COALESCE(risk_flags, '{}'), flag)
\* for the rows of set S, on the ledger L = [score, flags]
Flagged(L, S, flag, points) ==
    [score |-> [c \in Carriers |->
                  IF c \in S THEN Some(Coalesce(L.score[c], 0) + points)
                  ELSE L.score[c]],
     flags |-> [c \in Carriers |->
                  IF c \in S THEN Some(ArrayAppend(Coalesce(L.flags[c], <<>>), flag))
                  ELSE L.flags[c]]]

LedgerNow ==
    [score |-> risk_score, flags |-> risk_flags]

ScoreAfter(S, points) ==
    Flagged(LedgerNow, S, "", points).score

FlagsAfter(S, flag) ==
    Flagged(LedgerNow, S, flag, 0).flags

\* the rows a LIMIT n query without ORDER BY may return out of the set all
Limited(all, n) ==
    {S \in SUBSET all : Cardinality(S) = Min2(n, Cardinality(all))}

\* WHERE risk_score != 0 OR (risk_flags IS NOT NULL AND array_length(risk_flags, 1) > 0)
\* in SQL's three-valued logic: NULL != 0 is NULL, array_length('{}', 1) is NULL
NeedsReset(c) ==
    \/ risk_score[c] # Null /\ risk_score[c][1] # 0
    \/ risk_flags[c] # Null /\ Len(risk_flags[c][1]) > 0

\* has_table(...) and has_rows(...)
HasClusters ==
    clusters_exists /\ officer_network_clusters # {}

\* every table the ledger reads or that is derived from them
DataNow ==
    <<carriers, address_clusters, carrier_principals, clusters_exists,
      officer_network_clusters, chameleon_pairs, fraud_rings, violations_present>>

\* the jobs run one after the other: no job is in progress
Quiet ==
    /\ lpc \in {"idle", "done", "failed", "killed"}
    /\ rpc \in {"idle", "done"}
    /\ cpc \in {"idle", "done"}
    /\ hpc \in {"idle", "done"}

\* another job starts: the process of the last ledger run, detector run or
\* resolver run is gone
LedgerExited ==
    /\ lpc' = "idle"
    /\ UNCHANGED <<rule_idx, reset_mode, has_clusters, has_violations, executed, failed_at>>

RingsExited ==
    /\ rpc' = "idle"
    /\ UNCHANGED <<edges, edge_idx, uf, rings>>

ResolverExited ==
    /\ cpc' = "idle"
    /\ UNCHANGED <<officers, batch_size, batch_start, names, insert_rows, processed>>

ChameleonExited ==
    hpc' = "idle"

\* main up to the try block: parse --reset, connect, feature-detect the tables
StartMain(reset) ==
    /\ Quiet
    /\ jobs < MaxJobs
    /\ jobs' = jobs + 1
    /\ reset_mode' = reset
    /\ has_clusters' = HasClusters
    /\ has_violations' = violations_present
    /\ lpc' = IF reset THEN "reset" ELSE "rules"
    /\ rule_idx' = 1
    /\ executed' = {}
    /\ failed_at' = 0
    /\ streak' = IF reset THEN 0 ELSE streak
    /\ incr_snap' = IF reset THEN Null ELSE incr_snap
    /\ RingsExited /\ ResolverExited /\ ChameleonExited
    /\ UNCHANGED <<tierVars, pairVars>>
    /\ UNCHANGED <<storeVars, reset_snap>>

StartRun(reset) ==
    /\ StartMain(reset)
    /\ UNCHANGED resumeVars

\* reset_all_flags
ResetAllFlags ==
    /\ lpc = "reset"
    /\ risk_score' = [c \in Carriers |-> IF NeedsReset(c) THEN Some(0) ELSE risk_score[c]]
    /\ risk_flags' = [c \in Carriers |-> IF NeedsReset(c) THEN Some(<<>>) ELSE risk_flags[c]]
    /\ lpc' = "rules"
    /\ UNCHANGED <<carriers, fleet_size_bucket, peer_percentiles, address_clusters,
                   carrier_principals, clusters_exists, officer_network_clusters,
                   chameleon_pairs, fraud_rings, violations_present>>
    /\ UNCHANGED <<rule_idx, reset_mode, has_clusters, has_violations, executed, failed_at>>
    /\ UNCHANGED <<histVars, ringVars, clusterVars, chameleonVars, resumeVars, tierVars, pairVars>>

\* the run goes on to the rule after rule_idx; after the last rule main reads
\* the final statistics, closes the connection and returns
NextRule ==
    /\ IF rule_idx < NumRules
       THEN /\ rule_idx' = rule_idx + 1
            /\ lpc' = "rules"
            /\ UNCHANGED <<streak, incr_snap, reset_snap>>
       ELSE /\ rule_idx' = rule_idx
            /\ lpc' = "done"
            /\ streak' = IF reset_mode THEN 0 ELSE streak + 1
            /\ incr_snap' = IF reset_mode THEN Null
                            ELSE Some([score |-> risk_score', flags |-> risk_flags'])
            /\ reset_snap' = IF reset_mode /\ reset_snap = Null
                             THEN Some([score |-> risk_score', flags |-> risk_flags',
                                        data |-> DataNow])
                             ELSE reset_snap
    /\ jobs' = jobs

\* one pass of batch_update's loop for the rule rule_idx: the flagged query
\* with LIMIT batch_size, the UPDATE, the commit; the loop ends with the pass
\* that updates no row
BatchUpdatePass ==
    /\ lpc = "rules"
    /\ Rules[rule_idx].batched
    /\ \E S \in Limited(Candidates(rule_idx), LedgerBatch) :
          /\ risk_score' = ScoreAfter(S, Rules[rule_idx].points)
          /\ risk_flags' = FlagsAfter(S, Rules[rule_idx].flag)
          /\ IF S = {}
             THEN NextRule
             ELSE UNCHANGED <<lpc, rule_idx, histVars>>
    /\ executed' = executed \cup {rule_idx}
    /\ UNCHANGED <<carriers, fleet_size_bucket, peer_percentiles, address_clusters,
                   carrier_principals, clusters_exists, officer_network_clusters,
                   chameleon_pairs, fraud_rings, violations_present>>
    /\ UNCHANGED <<reset_mode, has_clusters, has_violations, failed_at>>
    /\ UNCHANGED <<ringVars, clusterVars, chameleonVars, resumeVars, tierVars, pairVars>>

\* simple_update for HIGH_ELD_VIOLATION_RATE when has_violations: one UPDATE
\* of every candidate row, one commit
SimpleUpdate ==
    /\ lpc = "rules"
    /\ ~Rules[rule_idx].batched
    /\ has_violations
    /\ risk_score' = ScoreAfter(Candidates(rule_idx), Rules[rule_idx].points)
    /\ risk_flags' = FlagsAfter(Candidates(rule_idx), Rules[rule_idx].flag)
    /\ NextRule
    /\ executed' = executed \cup {rule_idx}
    /\ UNCHANGED <<carriers, fleet_size_bucket, peer_percentiles, address_clusters,
                   carrier_principals, clusters_exists, officer_network_clusters,
                   chameleon_pairs, fraud_rings, violations_present>>
    /\ UNCHANGED <<reset_mode, has_clusters, has_violations, failed_at>>
    /\ UNCHANGED <<ringVars, clusterVars, chameleonVars, resumeVars, tierVars, pairVars>>

\* "No violation records found -- skipping ELD flags"
SkipEld ==
    /\ lpc = "rules"
    /\ ~Rules[rule_idx].batched
    /\ ~has_violations
    /\ UNCHANGED <<risk_score, risk_flags>>
    /\ NextRule
    /\ UNCHANGED executed
    /\ UNCHANGED <<carriers, fleet_size_bucket, peer_percentiles, address_clusters,
                   carrier_principals, clusters_exists, officer_network_clusters,
                   chameleon_pairs, fraud_rings, violations_present>>
    /\ UNCHANGED <<reset_mode, has_clusters, has_violations, failed_at>>
    /\ UNCHANGED <<ringVars, clusterVars, chameleonVars, resumeVars, tierVars, pairVars>>

\* a statement of the try block raises (psycopg2.Error: a lost connection, a
\* missing table, a lock timeout): the open transaction is not committed, the
\* finally clause closes the connection and the exception leaves main
RuleError ==
    /\ lpc \in {"reset", "rules"}
    /\ lpc' = "failed"
    /\ failed_at' = IF lpc = "reset" THEN 0 ELSE rule_idx
    /\ UNCHANGED <<storeVars, rule_idx, reset_mode, has_clusters, has_violations,
                   executed, histVars, ringVars, clusterVars, chameleonVars, resumeVars, tierVars, pairVars>>

\* the process is killed between two statements or inside one: the commits
\* made so far stay (conn.commit() at the end of each pass), the open
\* transaction is rolled back by the server
KillRun ==
    /\ lpc \in {"reset", "rules"}
    /\ resume # Null
    /\ resume.phase = "first"
    /\ lpc' = "killed"
    /\ resume' = [resume EXCEPT !.phase = "killed",
                                !.killed = Some([score |-> risk_score,
                                                 flags |-> risk_flags,
                                                 at |-> lpc])]
    /\ UNCHANGED <<storeVars, rule_idx, reset_mode, has_clusters, has_violations,
                   executed, failed_at, histVars, ringVars, clusterVars,
                   chameleonVars, tierVars, pairVars>>

\* main is started while a killed run is followed: the first run of either
\* mode, the incremental run after the kill, and the run of the first run's
\* mode on the restored ledger
StartFollowed(reset) ==
    /\ resume # Null
    /\ StartMain(reset)
    /\ \/ /\ resume.phase = "none"
          /\ resume' = [resume EXCEPT !.phase = "first",
                                      !.backup = Some([score |-> risk_score,
                                                       flags |-> risk_flags,
                                                       reset |-> reset])]
       \/ /\ resume.phase = "killed"
          /\ ~reset
          /\ resume' = [resume EXCEPT !.phase = "resuming"]
       \/ /\ resume.phase = "restored"
          /\ reset = resume.backup[1].reset
          /\ resume' = [resume EXCEPT !.phase = "replay"]

\* the risk_score and risk_flags columns are put back to what they were
\* before the killed run started (the data is unchanged), so that the run
\* can be repeated without interruption; the outcome of the resumed run is
\* kept for the comparison
RestoreLedger ==
    /\ lpc = "done"
    /\ resume # Null
    /\ resume.phase = "resuming"
    /\ risk_score' = resume.backup[1].score
    /\ risk_flags' = resume.backup[1].flags
    /\ resume' = [resume EXCEPT !.phase = "restored", !.result = Some(LedgerNow)]
    /\ UNCHANGED <<carriers, fleet_size_bucket, peer_percentiles, address_clusters,
                   carrier_principals, clusters_exists, officer_network_clusters,
                   chameleon_pairs, fraud_rings, violations_present>>
    /\ UNCHANGED <<ledgerVars, histVars, ringVars, clusterVars, chameleonVars, tierVars, pairVars>>

-----------------------------------------------------------------------------
(* detect_chameleons.py: the five statements of detect_chameleon_pairs as  *)
(* functions of the chameleon_pairs table t, and the flag step.            *)

MAX_GAP_DAYS ==
    365

\* the WHERE clause without its bound on the gap
EligibleAnyGap(p, s) ==
    /\ p # s
    /\ carriers[p].operating_status_code # NullText
    /\ carriers[p].operating_status_code # "A"
    /\ IsAuthorized(carriers[s].operating_status)
    /\ carriers[s].authority_grant_date # NullDate
    /\ carriers[p].authority_grant_date # NullDate
    /\ carriers[s].authority_grant_date > carriers[p].authority_grant_date

\* the WHERE clause with >= for > between the two grant dates
EligibleSameDay(p, s) ==
    /\ p # s
    /\ carriers[p].operating_status_code # NullText
    /\ carriers[p].operating_status_code # "A"
    /\ IsAuthorized(carriers[s].operating_status)
    /\ carriers[s].authority_grant_date # NullDate
    /\ carriers[p].authority_grant_date # NullDate
    /\ carriers[s].authority_grant_date >= carriers[p].authority_grant_date
    /\ carriers[s].authority_grant_date - carriers[p].authority_grant_date <= MAX_GAP_DAYS

\* the WHERE clause shared by steps 1 and 2
Eligible(p, s) ==
    /\ p # s
    /\ carriers[p].operating_status_code # NullText
    /\ carriers[p].operating_status_code # "A"
    /\ IsAuthorized(carriers[s].operating_status)
    /\ carriers[s].authority_grant_date # NullDate
    /\ carriers[p].authority_grant_date # NullDate
    /\ carriers[s].authority_grant_date > carriers[p].authority_grant_date
    /\ carriers[s].authority_grant_date - carriers[p].authority_grant_date <= MAX_GAP_DAYS

\* carrier_principals cp1 JOIN cp2 ON same officer_name_normalized, other dot
ShareOfficer(p, s) ==
    \E cp1 \in carrier_principals, cp2 \in carrier_principals :
        /\ cp1.officer_name_normalized # NullText
        /\ cp1.officer_name_normalized = cp2.officer_name_normalized
        /\ cp1.dot_number # cp2.dot_number
        /\ cp1.dot_number = p
        /\ cp2.dot_number = s

PairRow(p, s, signal) ==
    [predecessor_dot |-> p, successor_dot |-> s,
     deactivation_date |-> carriers[p].authority_grant_date,
     activation_date |-> carriers[s].authority_grant_date,
     days_gap |-> carriers[s].authority_grant_date - carriers[p].authority_grant_date,
     match_signals |-> <<signal>>, signal_count |-> 1, confidence |-> "low"]

HasPair(t, p, s) ==
    \E r \in t : r.predecessor_dot = p /\ r.successor_dot = s

\* step 1: address-based pairs
ChameleonStep1(t) ==
    t \cup {PairRow(p, s, "address") : <<p, s>> \in
               {<<p, s>> \in Carriers \X Carriers :
                   /\ carriers[p].address_hash # NullText
                   /\ carriers[p].address_hash = carriers[s].address_hash
                   /\ Eligible(p, s)
                   /\ ~HasPair(t, p, s)}}

\* step 2 without its NOT EXISTS
ChameleonStep2Unchecked(t) ==
    t \cup {PairRow(p, s, "officer") : <<p, s>> \in
               {<<p, s>> \in Carriers \X Carriers :
                   /\ ShareOfficer(p, s)
                   /\ Eligible(p, s)}}

\* step 2: officer-based pairs not yet in the table
ChameleonStep2(t) ==
    t \cup {PairRow(p, s, "officer") : <<p, s>> \in
               {<<p, s>> \in Carriers \X Carriers :
                   /\ ShareOfficer(p, s)
                   /\ Eligible(p, s)
                   /\ ~HasPair(t, p, s)}}

\* step 3 without its test for the signal being there already
ChameleonStep3Unguarded(t) ==
    {IF ShareOfficer(r.predecessor_dot, r.successor_dot)
     THEN [r EXCEPT !.match_signals = ArrayAppend(@, "officer"),
                    !.signal_count = @ + 1]
     ELSE r : r \in t}

\* step 3: the officer signal merged into the pairs that lack it
ChameleonStep3(t) ==
    {IF ShareOfficer(r.predecessor_dot, r.successor_dot) /\ ~AnyEq("officer", r.match_signals)
     THEN [r EXCEPT !.match_signals = ArrayAppend(@, "officer"),
                    !.signal_count = @ + 1]
     ELSE r : r \in t}

\* step 4 without "signal_count = signal_count + 1"
ChameleonStep4Uncounted(t) ==
    {IF /\ carriers[r.predecessor_dot].phone # NullText
        /\ carriers[r.predecessor_dot].phone # ""
        /\ carriers[r.predecessor_dot].phone = carriers[r.successor_dot].phone
        /\ ~AnyEq("phone", r.match_signals)
     THEN [r EXCEPT !.match_signals = ArrayAppend(@, "phone")]
     ELSE r : r \in t}

\* step 4: the phone signal
ChameleonStep4(t) ==
    {IF /\ carriers[r.predecessor_dot].phone # NullText
        /\ carriers[r.predecessor_dot].phone # ""
        /\ carriers[r.predecessor_dot].phone = carriers[r.successor_dot].phone
        /\ ~AnyEq("phone", r.match_signals)
     THEN [r EXCEPT !.match_signals = ArrayAppend(@, "phone"),
                    !.signal_count = @ + 1]
     ELSE r : r \in t}

\* the CASE of step 5
ChameleonConfidence(signal_count) ==
    IF signal_count >= 3 THEN "high"
    ELSE IF signal_count >= 2 THEN "medium"
    ELSE "low"

\* step 5: confidence levels
ChameleonStep5(t) ==
    {[r EXCEPT !.confidence = ChameleonConfidence(r.signal_count)] : r \in t}

\* detect_chameleon_pairs: TRUNCATE, then steps 1 to 5
DetectChameleonPairs ==
    ChameleonStep5(ChameleonStep4(ChameleonStep3(ChameleonStep2(ChameleonStep1({})))))

ChameleonSuccessors(t) ==
    {r.successor_dot : r \in {x \in t : x.confidence \in {"medium", "high"}}}

ChameleonPredecessors(t) ==
    {r.predecessor_dot : r \in {x \in t : x.confidence \in {"medium", "high"}}}

\* the first UPDATE without its NOT ... = ANY(risk_flags)
FlagChameleonSuccessorsUnguarded(L, t) ==
    Flagged(L, ChameleonSuccessors(t) \cap Carriers, "CHAMELEON_SUCCESSOR", 30)

\* the first UPDATE of apply_chameleon_risk_flags, on the ledger L with the
\* pair table t
FlagChameleonSuccessors(L, t) ==
    Flagged(L, {c \in ChameleonSuccessors(t) \cap Carriers :
                   ~AnyEq("CHAMELEON_SUCCESSOR", Coalesce(L.flags[c], <<>>))},
            "CHAMELEON_SUCCESSOR", 30)

\* the second UPDATE of apply_chameleon_risk_flags
FlagChameleonPredecessors(L, t) ==
    Flagged(L, {c \in ChameleonPredecessors(t) \cap Carriers :
                   ~AnyEq("CHAMELEON_PREDECESSOR", Coalesce(L.flags[c], <<>>))},
            "CHAMELEON_PREDECESSOR", 20)

\* apply_chameleon_risk_flags on the ledger L with the pair table t
ApplyChameleonRiskFlags(L, t) ==
    FlagChameleonPredecessors(FlagChameleonSuccessors(L, t), t)

\* detect_chameleons.py main: detection, then the flags when pairs were found
ChameleonMain ==
    /\ Quiet
    /\ jobs < MaxJobs
    /\ jobs' = jobs + 1
    /\ chameleon_pairs' = DetectChameleonPairs
    /\ LET L == IF chameleon_pairs' # {}
                THEN ApplyChameleonRiskFlags(LedgerNow, chameleon_pairs')
                ELSE LedgerNow
       IN  risk_score' = L.score /\ risk_flags' = L.flags
    /\ streak' = 0
    /\ incr_snap' = Null
    /\ UNCHANGED <<carriers, fleet_size_bucket, peer_percentiles, address_clusters,
                   carrier_principals, clusters_exists, officer_network_clusters,
                   fraud_rings, violations_present>>
    /\ LedgerExited /\ RingsExited /\ ResolverExited /\ ChameleonExited
    /\ UNCHANGED <<resumeVars, tierVars, pairVars>>
    /\ UNCHANGED reset_snap

\* main and the head of detect_chameleon_pairs: connect, TRUNCATE
\* chameleon_pairs, commit
StartChameleons ==
    /\ Quiet
    /\ jobs < MaxJobs
    /\ jobs' = jobs + 1
    /\ chameleon_pairs' = {}
    /\ hpc' = "address"
    /\ streak' = 0
    /\ incr_snap' = Null
    /\ UNCHANGED <<carriers, risk_score, risk_flags, fleet_size_bucket, peer_percentiles,
                   address_clusters, carrier_principals, clusters_exists,
                   officer_network_clusters, fraud_rings, violations_present>>
    /\ LedgerExited /\ RingsExited /\ ResolverExited
    /\ UNCHANGED <<reset_snap, resumeVars, tierVars, pairVars>>

\* step 1 and its commit
AddressPairs ==
    /\ hpc = "address"
    /\ chameleon_pairs' = ChameleonStep1(chameleon_pairs)
    /\ hpc' = "officer"
    /\ UNCHANGED <<carriers, risk_score, risk_flags, fleet_size_bucket, peer_percentiles,
                   address_clusters, carrier_principals, clusters_exists,
                   officer_network_clusters, fraud_rings, violations_present>>
    /\ UNCHANGED <<ledgerVars, histVars, ringVars, clusterVars, resumeVars, tierVars, pairVars>>

\* step 2 and its commit
OfficerPairs ==
    /\ hpc = "officer"
    /\ chameleon_pairs' = ChameleonStep2(chameleon_pairs)
    /\ hpc' = "merge_officer"
    /\ UNCHANGED <<carriers, risk_score, risk_flags, fleet_size_bucket, peer_percentiles,
                   address_clusters, carrier_principals, clusters_exists,
                   officer_network_clusters, fraud_rings, violations_present>>
    /\ UNCHANGED <<ledgerVars, histVars, ringVars, clusterVars, resumeVars, tierVars, pairVars>>

\* step 3 and its commit
MergeOfficerSignal ==
    /\ hpc = "merge_officer"
    /\ chameleon_pairs' = ChameleonStep3(chameleon_pairs)
    /\ hpc' = "merge_phone"
    /\ UNCHANGED <<carriers, risk_score, risk_flags, fleet_size_bucket, peer_percentiles,
                   address_clusters, carrier_principals, clusters_exists,
                   officer_network_clusters, fraud_rings, violations_present>>
    /\ UNCHANGED <<ledgerVars, histVars, ringVars, clusterVars, resumeVars, tierVars, pairVars>>

\* step 4 and its commit
MergePhoneSignal ==
    /\ hpc = "merge_phone"
    /\ chameleon_pairs' = ChameleonStep4(chameleon_pairs)
    /\ hpc' = "confidence"
    /\ UNCHANGED <<carriers, risk_score, risk_flags, fleet_size_bucket, peer_percentiles,
                   address_clusters, carrier_principals, clusters_exists,
                   officer_network_clusters, fraud_rings, violations_present>>
    /\ UNCHANGED <<ledgerVars, histVars, ringVars, clusterVars, resumeVars, tierVars, pairVars>>

\* step 5 and its commit, the statistics, and main's test of total_pairs
SetConfidence ==
    /\ hpc = "confidence"
    /\ chameleon_pairs' = ChameleonStep5(chameleon_pairs)
    /\ hpc' = IF chameleon_pairs' # {} THEN "successors" ELSE "done"
    /\ UNCHANGED <<carriers, risk_score, risk_flags, fleet_size_bucket, peer_percentiles,
                   address_clusters, carrier_principals, clusters_exists,
                   officer_network_clusters, fraud_rings, violations_present>>
    /\ UNCHANGED <<ledgerVars, histVars, ringVars, clusterVars, resumeVars, tierVars, pairVars>>

\* apply_chameleon_risk_flags: the CHAMELEON_SUCCESSOR update and its commit
FlagSuccessors ==
    /\ hpc = "successors"
    /\ LET L == FlagChameleonSuccessors(LedgerNow, chameleon_pairs)
       IN  risk_score' = L.score /\ risk_flags' = L.flags
    /\ hpc' = "predecessors"
    /\ UNCHANGED <<carriers, fleet_size_bucket, peer_percentiles, address_clusters,
                   carrier_principals, clusters_exists, officer_network_clusters,
                   chameleon_pairs, fraud_rings, violations_present>>
    /\ UNCHANGED <<ledgerVars, histVars, ringVars, clusterVars, resumeVars, tierVars, pairVars>>

\* apply_chameleon_risk_flags: the CHAMELEON_PREDECESSOR update and its commit
FlagPredecessors ==
    /\ hpc = "predecessors"
    /\ LET L == FlagChameleonPredecessors(LedgerNow, chameleon_pairs)
       IN  risk_score' = L.score /\ risk_flags' = L.flags
    /\ hpc' = "done"
    /\ UNCHANGED <<carriers, fleet_size_bucket, peer_percentiles, address_clusters,
                   carrier_principals, clusters_exists, officer_network_clusters,
                   chameleon_pairs, fraud_rings, violations_present>>
    /\ UNCHANGED <<ledgerVars, histVars, ringVars, clusterVars, resumeVars, tierVars, pairVars>>

-----------------------------------------------------------------------------
(* principals_ingest.py: the officer tier flags at the end of main.        *)

\* officer_flagged_dots.max_count: the largest COUNT(DISTINCT dot_number)
\* among the carrier's officer names that have 5 or more carriers (0: none),
\* over the loaded carrier_principals rows P
MaxOfficerCount(P, c) ==
    LET counts == {NameCountIn(P, cp.officer_name_normalized) :
                      cp \in {r \in P : r.dot_number = c}}
        big == {n \in counts : n >= 5}
    IN  IF big = {} THEN 0 ELSE CHOOSE n \in big : \A m \in big : m <= n

\* one UPDATE of the loop over (threshold, points, flag)
OfficerTierUpdate(L, P, threshold, points, flag) ==
    Flagged(L,
            {c \in Carriers :
                /\ MaxOfficerCount(P, c) >= threshold
                /\ ~AnyEq(flag, Coalesce(L.flags[c], <<>>))
                /\ ~AnyEq("OFFICER_25_PLUS", Coalesce(L.flags[c], <<>>))
                /\ ~AnyEq("OFFICER_10_PLUS", Coalesce(L.flags[c], <<>>))
                /\ ~AnyEq("OFFICER_5_PLUS", Coalesce(L.flags[c], <<>>))},
            flag, points)

\* main: TRUNCATE carrier_principals, load the rows P of the census file,
\* then the three tier updates over the loaded rows
PrincipalsIngest(P) ==
    /\ Quiet
    /\ jobs < MaxJobs
    /\ jobs' = jobs + 1
    /\ carrier_principals' = P
    /\ LET L1 == OfficerTierUpdate(LedgerNow, P, 25, 50, "OFFICER_25_PLUS")
           L2 == OfficerTierUpdate(L1, P, 10, 35, "OFFICER_10_PLUS")
           L3 == OfficerTierUpdate(L2, P, 5, 20, "OFFICER_5_PLUS")
       IN  risk_score' = L3.score /\ risk_flags' = L3.flags
    /\ streak' = 0
    /\ incr_snap' = Null
    /\ UNCHANGED <<carriers, fleet_size_bucket, peer_percentiles, address_clusters,
                   clusters_exists, officer_network_clusters,
                   chameleon_pairs, fraud_rings, violations_present>>
    /\ LedgerExited /\ RingsExited /\ ResolverExited /\ ChameleonExited
    /\ UNCHANGED <<resumeVars, tierVars, pairVars>>
    /\ UNCHANGED reset_snap

-----------------------------------------------------------------------------
(* detect_fraud_rings.py: edges, union-find, rings, flags, benchmarks.     *)

MIN_SHARED_OFFICERS ==
    2

MIN_RING_SIZE ==
    3

\* the 50 of "for j in range(i + 1, min(i + 50, len(dots)))"
PairWindow ==
    50

\* sorted(S) for a set of integers
RECURSIVE SortedSeq(_)
SortedSeq(S) ==
    IF S = {} THEN <<>>
    ELSE LET m == CHOOSE x \in S : \A y \in S : x <= y
         IN  <<m>> \o SortedSeq(S \ {m})

\* the orders in which a query without ORDER BY may return the rows S
RECURSIVE Perms(_)
Perms(S) ==
    IF S = {} THEN {<<>>}
    ELSE UNION {{<<x>> \o p : p \in Perms(S \ {x})} : x \in S}

\* SUM of f over the rows S
RECURSIVE SetSum(_, _)
SetSum(f, S) ==
    IF S = {} THEN 0
    ELSE LET x == CHOOSE y \in S : TRUE
         IN  f[x] + SetSum(f, S \ {x})

\* UnionFind.__init__
NewUnionFind ==
    [parent |-> <<>>, rank |-> <<>>, nodes |-> <<>>]

\* UnionFind.find: the node is created when it is new, the path to the root
\* is compressed; the result is the root and the structure after the call
RECURSIVE Find(_, _)
Find(u, x) ==
    LET u1 == IF x \in DOMAIN u.parent THEN u
              ELSE [parent |-> u.parent @@ (x :> x),
                    rank |-> u.rank @@ (x :> 0),
                    nodes |-> Append(u.nodes, x)]
    IN  IF u1.parent[x] # x
        THEN LET r == Find(u1, u1.parent[x])
             IN  [uf |-> [r.uf EXCEPT !.parent[x] = r.root], root |-> r.root]
        ELSE [uf |-> u1, root |-> x]

\* UnionFind.union
Union(u, x, y) ==
    LET fx == Find(u, x)
        fy == Find(fx.uf, y)
        u2 == fy.uf
        swap == u2.rank[fx.root] < u2.rank[fy.root]
        rx == IF swap THEN fy.root ELSE fx.root
        ry == IF swap THEN fx.root ELSE fy.root
    IN  IF fx.root = fy.root THEN u2
        ELSE [u2 EXCEPT !.parent[ry] = rx,
                        !.rank[rx] = IF u2.rank[rx] = u2.rank[ry] THEN @ + 1 ELSE @]

\* groups[root].add(node) on the dict groups, kept in insertion order
AddToGroup(groups, root, node) ==
    IF \E k \in 1..Len(groups) : groups[k].root = root
    THEN [k \in 1..Len(groups) |->
             IF groups[k].root = root
             THEN [groups[k] EXCEPT !.members = @ \cup {node}]
             ELSE groups[k]]
    ELSE Append(groups, [root |-> root, members |-> {node}])

\* the loop of UnionFind.components from the i-th node on
RECURSIVE ComponentsLoop(_, _, _)
ComponentsLoop(u, i, groups) ==
    IF i > Len(u.nodes) THEN groups
    ELSE LET r == Find(u, u.nodes[i])
         IN  ComponentsLoop(r.uf, i + 1, AddToGroup(groups, r.root, u.nodes[i]))

\* a group per node instead of a group per root
ComponentsByNode(u) ==
    [i \in 1..Len(u.nodes) |->
        [root |-> u.nodes[i],
         members |-> {n \in Range(u.nodes) : Find(u, n).root = Find(u, u.nodes[i]).root}]]

\* UnionFind.components
Components(u) ==
    ComponentsLoop(u, 1, <<>>)

\* the rows of the query of build_officer_edges over officer_network_clusters
ClusterQueryRows ==
    {[member_dots |-> onc.member_dot_numbers,
      officer_name |-> onc.officer_name_normalized,
      cluster_idx |-> onc.cluster_index] :
        onc \in {o \in officer_network_clusters : o.carrier_count >= 2}}

\* the rows of the query of build_officer_edges over carrier_principals
RawQueryRows ==
    {[member_dots |-> {cp.dot_number : cp \in {r \in carrier_principals :
                                                 r.officer_name_normalized = n}},
      officer_name |-> n,
      cluster_idx |-> 0] :
        n \in {cp.officer_name_normalized : cp \in carrier_principals} \ {NullText}}

RawQueryRowsHaving ==
    {row \in RawQueryRows : Cardinality(row.member_dots) >= 2}

\* f"{officer_name}:{cluster_idx}" if use_clusters else officer_name
IdentityKey(row, use_clusters) ==
    IF use_clusters THEN <<row.officer_name, row.cluster_idx>> ELSE <<row.officer_name>>

\* the pairs (dots[i], dots[j]) of the two loops, in the order of the loops:
\* the pairs of dots[i] from dots[j] on, then those of the dots after it
RECURSIVE PairLoop(_, _, _)
PairLoop(dots, i, j) ==
    IF i > Len(dots) THEN <<>>
    ELSE [k \in 1..(Min2(i + PairWindow - 1, Len(dots)) - j + 1) |->
             <<dots[i], dots[j + k - 1]>>]
            \o PairLoop(dots, i + 1, i + 2)

\* pair_officers[pair].add(identity_key) on the dict po, kept in insertion order
AddIdentity(po, pair, key) ==
    IF \E k \in 1..Len(po) : po[k].pair = pair
    THEN [k \in 1..Len(po) |->
             IF po[k].pair = pair THEN [po[k] EXCEPT !.officers = @ \cup {key}] ELSE po[k]]
    ELSE Append(po, [pair |-> pair, officers |-> {key}])

\* the adds of one cursor row, in the order of pairs: those of the first half
\* of pairs, computed first, then those of the second half
RECURSIVE AddPairs(_, _, _)
AddPairs(po, pairs, key) ==
    IF Len(pairs) = 0 THEN po
    ELSE IF Len(pairs) = 1 THEN AddIdentity(po, pairs[1], key)
    ELSE LET h == Len(pairs) \div 2
             first == AddPairs(po, SubSeq(pairs, 1, h), key)
         IN  IF Len(first) >= 0
             THEN AddPairs(first, SubSeq(pairs, h + 1, Len(pairs)), key)
             ELSE first

\* the loop over the cursor rows
RECURSIVE PairOfficers(_, _, _)
PairOfficers(po, rows, use_clusters) ==
    IF rows = <<>> THEN po
    ELSE LET row == Head(rows)
         IN  IF Cardinality(row.member_dots) < 2
             THEN PairOfficers(po, Tail(rows), use_clusters)
             ELSE PairOfficers(AddPairs(po, PairLoop(SortedSeq(row.member_dots), 1, 2),
                                        IdentityKey(row, use_clusters)),
                               Tail(rows), use_clusters)

\* the filter with one shared identity key for a strong edge
IsStrongWithOne(e) ==
    Cardinality(e.officers) >= 1

IsStrong(e) ==
    Cardinality(e.officers) >= MIN_SHARED_OFFICERS

\* strong_edges of the rows returned in the order rows
StrongEdges(rows, use_clusters) ==
    SelectSeq(PairOfficers(<<>>, rows, use_clusters), IsStrong)

\* use_clusters = has_table(conn, "officer_network_clusters")
UseClusters ==
    clusters_exists

\* build_officer_edges, and main's test of its result
BuildOfficerEdges ==
    /\ Quiet
    /\ jobs < MaxJobs
    /\ jobs' = jobs + 1
    /\ \E rows \in Perms(IF UseClusters THEN ClusterQueryRows ELSE RawQueryRowsHaving) :
          edges' = StrongEdges(rows, UseClusters)
    /\ edge_idx' = 1
    /\ uf' = NewUnionFind
    /\ rings' = <<>>
    /\ rpc' = IF edges' = <<>> THEN "insurance" ELSE "union"
    /\ streak' = 0
    /\ incr_snap' = Null
    /\ LedgerExited /\ ResolverExited /\ ChameleonExited
    /\ UNCHANGED <<resumeVars, tierVars, pairVars>>
    /\ UNCHANGED <<storeVars, reset_snap>>

\* find_rings: one uf.union(dot_a, dot_b) of the loop over the edges
UnionStep ==
    /\ rpc = "union"
    /\ edge_idx <= Len(edges)
    /\ uf' = Union(uf, edges[edge_idx].pair[1], edges[edge_idx].pair[2])
    /\ edge_idx' = edge_idx + 1
    /\ UNCHANGED <<rpc, edges, rings>>
    /\ UNCHANGED <<storeVars, ledgerVars, histVars, clusterVars, chameleonVars, resumeVars, tierVars, pairVars>>

IsRing(g) ==
    Cardinality(g.members) >= MIN_RING_SIZE

\* find_rings after the loop: the components of MIN_RING_SIZE and more, and
\* main's test of the result
FindRings ==
    /\ rpc = "union"
    /\ edge_idx > Len(edges)
    /\ rings' = SelectSeq(Components(uf), IsRing)
    /\ rpc' = IF rings' = <<>> THEN "insurance" ELSE "save"
    /\ UNCHANGED <<edges, edge_idx, uf>>
    /\ UNCHANGED <<storeVars, ledgerVars, histVars, clusterVars, chameleonVars, resumeVars, tierVars, pairVars>>

\* the CASE with carrier_count = 5 in its second WHEN
RingConfidenceAtFive(carrier_count, total_crashes, total_fatalities) ==
    IF carrier_count >= 10 /\ total_fatalities > 0 THEN "high"
    ELSE IF carrier_count = 5 \/ total_crashes > 5 THEN "medium"
    ELSE "low"

\* the CASE of save_rings
RingConfidence(carrier_count, total_crashes, total_fatalities) ==
    IF carrier_count >= 10 /\ total_fatalities > 0 THEN "high"
    ELSE IF carrier_count >= 5 \/ total_crashes > 5 THEN "medium"
    ELSE "low"

\* the row save_rings inserts for one ring
RingRow(ring) ==
    LET inside == {e \in Range(edges) : e.pair[1] \in ring.members /\ e.pair[2] \in ring.members}
        ring_officers == UNION {e.officers : e \in inside}
        rows == {c \in Carriers : c \in ring.members}
        carrier_count == Cardinality(rows)
        total_crashes == SetSum([c \in Carriers |-> carriers[c].total_crashes], rows)
        total_fatalities == SetSum([c \in Carriers |-> carriers[c].fatal_crashes], rows)
    IN  [carrier_dots |-> SortedSeq(ring.members),
         officer_names |-> {o[1] : o \in ring_officers},
         shared_addresses |-> {carriers[c].address_hash : c \in rows} \ {NullText},
         carrier_count |-> carrier_count,
         active_count |-> Cardinality({c \in rows : IsAuthorized(carriers[c].operating_status)}),
         total_crashes |-> total_crashes,
         total_fatalities |-> total_fatalities,
         combined_risk |-> SetSum([c \in Carriers |-> Coalesce(risk_score[c], 0)], rows),
         detection_signals |-> <<"shared_officers">>,
         confidence |-> RingConfidence(carrier_count, total_crashes, total_fatalities)]

\* save_rings: TRUNCATE fraud_rings, one INSERT per ring, commit
SaveRings ==
    /\ rpc = "save"
    /\ fraud_rings' = {RingRow(rings[i]) : i \in 1..Len(rings)}
    /\ rpc' = "flags"
    /\ UNCHANGED <<carriers, risk_score, risk_flags, fleet_size_bucket, peer_percentiles,
                   address_clusters, carrier_principals, clusters_exists,
                   officer_network_clusters, chameleon_pairs, violations_present>>
    /\ UNCHANGED <<edges, edge_idx, uf, rings>>
    /\ UNCHANGED <<ledgerVars, histVars, clusterVars, chameleonVars, resumeVars, tierVars, pairVars>>

\* ring_members without the WHERE on confidence
RingMembersOfAll(t) ==
    UNION {Range(r.carrier_dots) : r \in t}

\* ring_members of apply_fraud_ring_flags
RingMembers(t) ==
    UNION {Range(r.carrier_dots) : r \in {x \in t : x.confidence \in {"medium", "high"}}}

\* apply_fraud_ring_flags with the points added and no flag appended
ApplyFraudRingFlagsPointsOnly ==
    /\ rpc = "flags"
    /\ risk_score' = ScoreAfter({c \in Carriers : c \in RingMembers(fraud_rings)
                                                  /\ NotFlagged(c, "FRAUD_RING")}, 25)
    /\ risk_flags' = risk_flags
    /\ rpc' = "insurance"
    /\ UNCHANGED <<carriers, fleet_size_bucket, peer_percentiles,
                   address_clusters, carrier_principals, clusters_exists,
                   officer_network_clusters, chameleon_pairs, fraud_rings,
                   violations_present>>
    /\ UNCHANGED <<edges, edge_idx, uf, rings>>
    /\ UNCHANGED <<ledgerVars, histVars, clusterVars, chameleonVars, resumeVars, tierVars, pairVars>>

\* apply_fraud_ring_flags
ApplyFraudRingFlags ==
    /\ rpc = "flags"
    /\ LET L == Flagged(LedgerNow,
                        {c \in Carriers : c \in RingMembers(fraud_rings)
                                          /\ NotFlagged(c, "FRAUD_RING")},
                        "FRAUD_RING", 25)
       IN  risk_score' = L.score /\ risk_flags' = L.flags
    /\ rpc' = "insurance"
    /\ UNCHANGED <<carriers, fleet_size_bucket, peer_percentiles,
                   address_clusters, carrier_principals, clusters_exists,
                   officer_network_clusters, chameleon_pairs, fraud_rings,
                   violations_present>>
    /\ UNCHANGED <<edges, edge_idx, uf, rings>>
    /\ UNCHANGED <<ledgerVars, histVars, clusterVars, chameleonVars, resumeVars, tierVars, pairVars>>

\* refresh_insurance_stats: the materialized view insurance_company_stats is
\* refreshed when it exists; no table of the model depends on it
RefreshInsuranceStats ==
    /\ rpc = "insurance"
    /\ rpc' = "bench"
    /\ UNCHANGED <<edges, edge_idx, uf, rings>>
    /\ UNCHANGED <<storeVars, ledgerVars, histVars, clusterVars, chameleonVars, resumeVars, tierVars, pairVars>>

\* the CASE of compute_peer_benchmarks over power_units
FleetSizeBucket(power_units) ==
    IF power_units <= 0 THEN "unknown"
    ELSE IF power_units = 1 THEN "1"
    ELSE IF power_units <= 5 THEN "2-5"
    ELSE IF power_units <= 20 THEN "6-20"
    ELSE IF power_units <= 100 THEN "21-100"
    ELSE IF power_units <= 500 THEN "101-500"
    ELSE "500+"

\* (PERCENT_RANK() OVER (PARTITION BY bucket ORDER BY value) * 100)::real for
\* the row c among the rows peers; the peer groups of the model give whole
\* numbers
PercentRank(c, peers, bucket, value) ==
    LET group == {d \in peers : bucket[d] = bucket[c]}
        below == {d \in group : value[d] < value[c]}
    IN  IF Cardinality(group) = 1 THEN 0
        ELSE (100 * Cardinality(below)) \div (Cardinality(group) - 1)

\* compute_peer_benchmarks: the two UPDATEs and their commits
ComputePeerBenchmarks ==
    /\ rpc = "bench"
    /\ fleet_size_bucket' =
          [c \in Carriers |->
              IF fleet_size_bucket[c] \in {NullText, ""}
              THEN FleetSizeBucket(carriers[c].power_units)
              ELSE fleet_size_bucket[c]]
    /\ LET peers == {c \in Carriers : /\ fleet_size_bucket'[c] # "unknown"
                                      /\ carriers[c].total_inspections > 0}
       IN  peer_percentiles' =
              [c \in Carriers |->
                  IF c \in peers
                  THEN Some([crash |-> PercentRank(c, peers, fleet_size_bucket',
                                          [d \in Carriers |-> carriers[d].total_crashes]),
                             oos |-> PercentRank(c, peers, fleet_size_bucket',
                                          [d \in Carriers |-> carriers[d].vehicle_oos_rate])])
                  ELSE peer_percentiles[c]]
    /\ rpc' = "done"
    /\ UNCHANGED <<carriers, risk_score, risk_flags,
                   address_clusters, carrier_principals, clusters_exists,
                   officer_network_clusters, chameleon_pairs, fraud_rings,
                   violations_present>>
    /\ UNCHANGED <<edges, edge_idx, uf, rings>>
    /\ UNCHANGED <<ledgerVars, histVars, clusterVars, chameleonVars, resumeVars, tierVars, pairVars>>

-----------------------------------------------------------------------------
(* cluster_officers.py: find_links, union-find, the batch loop of main.    *)

\* "@" in email, for the email addresses of the census files of the model
HasAt(email) ==
    email \in {"x@y.com", "X@Y.COM"}

\* email.lower(), for the same addresses
Lower(email) ==
    IF email = "X@Y.COM" THEN "x@y.com" ELSE email

\* if c["phone"] and len(c["phone"]) >= 7
PhoneOk(r) ==
    r.phone # NullText /\ r.phone # "" /\ Len(r.phone) >= 7

PhoneKey(r) ==
    r.phone

\* if c["email"] and "@" in c["email"]
EmailOk(r) ==
    r.email # NullText /\ r.email # "" /\ HasAt(r.email)

EmailKey(r) ==
    Lower(r.email)

\* if c["address_hash"]
AddressOk(r) ==
    r.address_hash # NullText /\ r.address_hash # ""

AddressKey(r) ==
    r.address_hash

\* if c["physical_state"]
StateOk(r) ==
    r.physical_state # NullText /\ r.physical_state # ""

StateKey(r) ==
    r.physical_state

Max2(a, b) ==
    IF a > b THEN a ELSE b

\* the pairs (min, max) of the dots of two rows of one group of a by_* index
SignalPairs(by_key) ==
    {<<Min2(r1.dot_number, r2.dot_number), Max2(r1.dot_number, r2.dot_number)>> :
        <<r1, r2>> \in {<<x, y>> \in (DOMAIN by_key) \X (DOMAIN by_key) :
                           x # y /\ by_key[x] = by_key[y]}}

\* the pairs of the co_groups: two dots of the map that share an officer
\* other than officer_name
CoOfficerPairs(co_officer_map, officer_name) ==
    {<<a, b>> \in (DOMAIN co_officer_map) \X (DOMAIN co_officer_map) :
        /\ a < b
        /\ (co_officer_map[a] \cap co_officer_map[b]) \ {officer_name} # {}}

\* find_links with the state pairs added like the pairs of the other signals
FindLinksWithState(rows, co_officer_map, officer_name) ==
    LET by_phone == [c \in {r \in rows : PhoneOk(r)} |-> PhoneKey(c)]
        by_email == [c \in {r \in rows : EmailOk(r)} |-> EmailKey(c)]
        by_address == [c \in {r \in rows : AddressOk(r)} |-> AddressKey(c)]
        by_state == [c \in {r \in rows : StateOk(r)} |-> StateKey(c)]
        phone == SignalPairs(by_phone)
        email == SignalPairs(by_email)
        address == SignalPairs(by_address)
        co == CoOfficerPairs(co_officer_map, officer_name)
        state == SignalPairs(by_state)
        linked == phone \cup email \cup address \cup co \cup state
    IN  {[a |-> pr[1], b |-> pr[2],
          sigs |-> (IF pr \in phone THEN {"phone"} ELSE {})
                   \cup (IF pr \in email THEN {"email"} ELSE {})
                   \cup (IF pr \in address THEN {"address"} ELSE {})
                   \cup (IF pr \in co THEN {"co_officer"} ELSE {})
                   \cup (IF pr \in state THEN {"same_state"} ELSE {})] : pr \in linked}

\* find_links: the linked pairs with their signals
FindLinks(rows, co_officer_map, officer_name) ==
    LET by_phone == [c \in {r \in rows : PhoneOk(r)} |-> PhoneKey(c)]
        by_email == [c \in {r \in rows : EmailOk(r)} |-> EmailKey(c)]
        by_address == [c \in {r \in rows : AddressOk(r)} |-> AddressKey(c)]
        by_state == [c \in {r \in rows : StateOk(r)} |-> StateKey(c)]
        phone == SignalPairs(by_phone)
        email == SignalPairs(by_email)
        address == SignalPairs(by_address)
        co == CoOfficerPairs(co_officer_map, officer_name)
        state == SignalPairs(by_state)
        linked == phone \cup email \cup address \cup co
    IN  {[a |-> pr[1], b |-> pr[2],
          sigs |-> (IF pr \in phone THEN {"phone"} ELSE {})
                   \cup (IF pr \in email THEN {"email"} ELSE {})
                   \cup (IF pr \in address THEN {"address"} ELSE {})
                   \cup (IF pr \in co THEN {"co_officer"} ELSE {})
                   \cup (IF pr \in state THEN {"same_state"} ELSE {})] : pr \in linked}

\* the elements of a list, each once, in the order of their first occurrence
RECURSIVE Dedup(_)
Dedup(s) ==
    IF s = <<>> THEN <<>>
    ELSE LET front == Dedup(SubSeq(s, 1, Len(s) - 1))
         IN  IF s[Len(s)] \in Range(front) THEN front ELSE Append(front, s[Len(s)])

\* UnionFind.__init__(elements)
NewClusterUnionFind(elements) ==
    [parent |-> [e \in Range(elements) |-> e],
     rank |-> [e \in Range(elements) |-> 0],
     nodes |-> Dedup(elements)]

\* UnionFind.find: the loop with path halving
RECURSIVE ClusterFind(_, _)
ClusterFind(u, x) ==
    IF u.parent[x] = x THEN [uf |-> u, root |-> x]
    ELSE LET u1 == [u EXCEPT !.parent[x] = u.parent[u.parent[x]]]
         IN  ClusterFind(u1, u1.parent[x])

\* UnionFind.union
ClusterUnion(u, a, b) ==
    LET fa == ClusterFind(u, a)
        fb == ClusterFind(fa.uf, b)
        u2 == fb.uf
        swap == u2.rank[fa.root] < u2.rank[fb.root]
        ra == IF swap THEN fb.root ELSE fa.root
        rb == IF swap THEN fa.root ELSE fb.root
    IN  IF fa.root = fb.root THEN u2
        ELSE [u2 EXCEPT !.parent[rb] = ra,
                        !.rank[ra] = IF u2.rank[ra] = u2.rank[rb] THEN @ + 1 ELSE @]

\* the loop of UnionFind.clusters from the i-th element on
RECURSIVE ClustersLoop(_, _, _)
ClustersLoop(u, i, groups) ==
    IF i > Len(u.nodes) THEN groups
    ELSE LET r == ClusterFind(u, u.nodes[i])
         IN  ClustersLoop(r.uf, i + 1, AddToGroup(groups, r.root, u.nodes[i]))

HasSeveral(g) ==
    Cardinality(g.members) >= 2

\* the groups of two and more elements only
ClustersOfSeveral(u) ==
    SelectSeq(ClustersLoop(u, 1, <<>>), HasSeveral)

\* UnionFind.clusters
Clusters(u) ==
    ClustersLoop(u, 1, <<>>)

\* the loop "for a, b, sigs in links: uf.union(a, b)"
RECURSIVE UnionLinks(_, _)
UnionLinks(u, links) ==
    IF links = <<>> THEN u
    ELSE UnionLinks(ClusterUnion(u, Head(links).a, Head(links).b), Tail(links))

\* sorted(components.items(), key=lambda x: -len(x[1])): a stable sort
RECURSIVE SortedBySize(_)
SortedBySize(groups) ==
    IF groups = <<>> THEN <<>>
    ELSE LET front == SortedBySize(SubSeq(groups, 1, Len(groups) - 1))
             g == groups[Len(groups)]
             k == Cardinality({i \in 1..Len(front) :
                                  Cardinality(front[i].members) >= Cardinality(g.members)})
         IN  SubSeq(front, 1, k) \o <<g>> \o SubSeq(front, k + 1, Len(front))

\* the rows of officer_carrier_counts over the carrier_principals rows P
OfficerCarrierCounts(P) ==
    {[officer_name_normalized |-> n,
      carrier_count |-> Cardinality({cp.dot_number : cp \in {r \in P :
                                        r.officer_name_normalized = n}})] :
        n \in {cp.officer_name_normalized : cp \in P}}

\* ORDER BY carrier_count DESC
IsByCountDesc(s) ==
    \A i \in 1..Len(s) : \A j \in 1..Len(s) :
        i < j => s[i].carrier_count >= s[j].carrier_count

\* carrier_principals cp JOIN carriers c ON c.dot_number = cp.dot_number
\* WHERE cp.officer_name_normalized = officer_name
JoinedRows(officer_name) ==
    {[dot_number |-> cp.dot_number, officer_position |-> cp.officer_position,
      phone |-> cp.phone, email |-> cp.email,
      address_hash |-> carriers[cp.dot_number].address_hash,
      physical_state |-> carriers[cp.dot_number].physical_state,
      total_crashes |-> carriers[cp.dot_number].total_crashes,
      fatal_crashes |-> carriers[cp.dot_number].fatal_crashes,
      power_units |-> carriers[cp.dot_number].power_units] :
        cp \in {r \in carrier_principals :
                   r.officer_name_normalized = officer_name /\ r.dot_number \in Carriers}}

\* co_officer_by_dot with the officers of the current batch only
OfficerCoMapOfBatch(dot_numbers) ==
    [d \in Range(dot_numbers) |->
        {cp.officer_name_normalized : cp \in {r \in carrier_principals : r.dot_number = d}}
           \cap Range(SubSeq(officers, batch_start + 1,
                             Min2(batch_start + batch_size, Len(officers))))]

\* co_officer_by_dot restricted to the dots of the officer
OfficerCoMap(dot_numbers) ==
    [d \in Range(dot_numbers) |->
        {cp.officer_name_normalized : cp \in {r \in carrier_principals : r.dot_number = d}}]

\* the row of a cluster whose signals are kept as collected, without the
\* "name_only" of a single carrier
ClusterRowUnlabelled(officer_name, idx, members, links) ==
    LET used == UNION {l.sigs : l \in {x \in links : x.a \in members \/ x.b \in members}}
    IN  [officer_name_normalized |-> officer_name,
         cluster_index |-> idx,
         member_dot_numbers |-> members,
         carrier_count |-> Cardinality(members),
         link_signals |-> used,
         total_crashes |-> SetSum([d \in members |-> carriers[d].total_crashes], members),
         fatal_crashes |-> SetSum([d \in members |-> carriers[d].fatal_crashes], members),
         total_units |-> SetSum([d \in members |-> carriers[d].power_units], members),
         states |-> {carriers[d].physical_state : d \in members} \ {NullText, ""}]

\* the row appended to insert_rows for the idx-th cluster of the officer;
\* the columns avg_risk_score and ppp_total are left out
ClusterRow(officer_name, idx, members, links) ==
    LET used == UNION {l.sigs : l \in {x \in links : x.a \in members \/ x.b \in members}}
    IN  [officer_name_normalized |-> officer_name,
         cluster_index |-> idx,
         member_dot_numbers |-> members,
         carrier_count |-> Cardinality(members),
         link_signals |-> IF Cardinality(members) = 1 THEN {"name_only"} ELSE used,
         total_crashes |-> SetSum([d \in members |-> carriers[d].total_crashes], members),
         fatal_crashes |-> SetSum([d \in members |-> carriers[d].fatal_crashes], members),
         total_units |-> SetSum([d \in members |-> carriers[d].power_units], members),
         states |-> {carriers[d].physical_state : d \in members} \ {NullText, ""}]

\* the rows of one officer without the loop of the unions
OfficerRowsWithoutUnions(officer_name, rows, links) ==
    LET dot_numbers == [i \in 1..Len(rows) |-> rows[i].dot_number]
        u == NewClusterUnionFind(dot_numbers)
        components == SortedBySize(Clusters(u))
    IN  {ClusterRow(officer_name, idx - 1, components[idx].members, Range(links)) :
            idx \in 1..Len(components)}

\* the rows of one officer: links, unions in the order of the links, clusters
\* by decreasing size; rows is the officer's carriers in the order of the
\* query, links the result of find_links in the order of its list
OfficerRows(officer_name, rows, links) ==
    LET dot_numbers == [i \in 1..Len(rows) |-> rows[i].dot_number]
        u == UnionLinks(NewClusterUnionFind(dot_numbers), links)
        components == SortedBySize(Clusters(u))
    IN  {ClusterRow(officer_name, idx - 1, components[idx].members, Range(links)) :
            idx \in 1..Len(components)}

\* main up to the batch loop: the officers of officer_carrier_counts, a
\* materialized view that holds the counts of the census file P it was last
\* refreshed on; TRUNCATE officer_network_clusters and commit
StartClusters(P) ==
    /\ Quiet
    /\ jobs < MaxJobs
    /\ jobs' = jobs + 1
    /\ \E s \in Perms({o \in OfficerCarrierCounts(P) : o.carrier_count >= 2}) :
          /\ IsByCountDesc(s)
          /\ officers' = [i \in 1..Len(s) |-> s[i].officer_name_normalized]
    /\ officer_network_clusters' = {}
    /\ \E size \in 1..ClusterBatch : batch_size' = size
    /\ batch_start' = 0
    /\ names' = <<>>
    /\ insert_rows' = {}
    /\ processed' = {}
    /\ cpc' = IF officers' = <<>> THEN "done" ELSE "batch"
    /\ streak' = 0
    /\ incr_snap' = Null
    /\ LedgerExited /\ RingsExited /\ ChameleonExited
    /\ UNCHANGED <<resumeVars, tierVars, pairVars>>
    /\ UNCHANGED <<carriers, risk_score, risk_flags, fleet_size_bucket, peer_percentiles,
                   address_clusters, carrier_principals, clusters_exists,
                   chameleon_pairs, fraud_rings, violations_present>>
    /\ UNCHANGED reset_snap

\* the top of the batch loop: the names of the batch
FetchBatch ==
    /\ cpc = "batch"
    /\ names' = SubSeq(officers, batch_start + 1,
                       Min2(batch_start + batch_size, Len(officers)))
    /\ insert_rows' = {}
    /\ cpc' = "officer"
    /\ UNCHANGED <<officers, batch_size, batch_start, processed>>
    /\ UNCHANGED <<storeVars, ledgerVars, histVars, ringVars, chameleonVars, resumeVars, tierVars, pairVars>>

\* one iteration of "for officer_name in names"
ClusterOfficer ==
    /\ cpc = "officer"
    /\ names # <<>>
    /\ LET officer_name == Head(names)
       IN  IF Cardinality(JoinedRows(officer_name)) < 2
           THEN UNCHANGED <<insert_rows, processed>>
           ELSE \E rows \in Perms(JoinedRows(officer_name)) :
                   LET dot_numbers == [i \in 1..Len(rows) |-> rows[i].dot_number]
                   IN  \E links \in Perms(FindLinks(Range(rows), OfficerCoMap(dot_numbers),
                                                    officer_name)) :
                          /\ insert_rows' = insert_rows
                                               \cup OfficerRows(officer_name, rows, links)
                          /\ processed' = processed \cup {officer_name}
    /\ names' = Tail(names)
    /\ UNCHANGED <<cpc, officers, batch_size, batch_start>>
    /\ UNCHANGED <<storeVars, ledgerVars, histVars, ringVars, chameleonVars, resumeVars, tierVars, pairVars>>

\* the end of the batch with a commit after every inserted row
InsertBatchRowByRow ==
    /\ cpc = "officer"
    /\ names = <<>>
    /\ IF insert_rows = {}
       THEN /\ batch_start' = batch_start + batch_size
            /\ cpc' = IF batch_start' < Len(officers) THEN "batch" ELSE "done"
            /\ UNCHANGED <<officer_network_clusters, insert_rows>>
       ELSE /\ \E r \in insert_rows :
                  /\ officer_network_clusters' = officer_network_clusters \cup {r}
                  /\ insert_rows' = insert_rows \ {r}
            /\ UNCHANGED <<batch_start, cpc>>
    /\ UNCHANGED <<officers, batch_size, names, processed>>
    /\ UNCHANGED <<carriers, risk_score, risk_flags, fleet_size_bucket, peer_percentiles,
                   address_clusters, carrier_principals, clusters_exists,
                   chameleon_pairs, fraud_rings, violations_present>>
    /\ UNCHANGED <<ledgerVars, histVars, ringVars, chameleonVars, resumeVars, tierVars, pairVars>>

\* the end of the batch: the bulk insert and its commit; after the last
\* batch the summary, and main returns
InsertBatch ==
    /\ cpc = "officer"
    /\ names = <<>>
    /\ officer_network_clusters' = officer_network_clusters \cup insert_rows
    /\ batch_start' = batch_start + batch_size
    /\ cpc' = IF batch_start' < Len(officers) THEN "batch" ELSE "done"
    /\ UNCHANGED <<officers, batch_size, names, insert_rows, processed>>
    /\ UNCHANGED <<carriers, risk_score, risk_flags, fleet_size_bucket, peer_percentiles,
                   address_clusters, carrier_principals, clusters_exists,
                   chameleon_pairs, fraud_rings, violations_present>>
    /\ UNCHANGED <<ledgerVars, histVars, ringVars, chameleonVars, resumeVars, tierVars, pairVars>>

-----------------------------------------------------------------------------
(* The jobs that refresh the tables the ledger reads.                      *)

\* ingest.py refresh_materialized_views: REFRESH MATERIALIZED VIEW
\* address_clusters, after which address H1 counts k carriers
RefreshAddressClusters(k) ==
    /\ Quiet
    /\ jobs < MaxJobs
    /\ jobs' = jobs + 1
    /\ address_clusters # AddressClustersOf(k)
    /\ address_clusters' = AddressClustersOf(k)
    /\ streak' = 0
    /\ incr_snap' = Null
    /\ UNCHANGED <<carriers, risk_score, risk_flags, fleet_size_bucket, peer_percentiles,
                   carrier_principals, clusters_exists, officer_network_clusters,
                   chameleon_pairs, fraud_rings, violations_present>>
    /\ LedgerExited /\ RingsExited /\ ResolverExited /\ ChameleonExited
    /\ UNCHANGED <<resumeVars, tierVars, pairVars>>
    /\ UNCHANGED reset_snap

-----------------------------------------------------------------------------
(* Initial states.                                                         *)

RingsIdle ==
    /\ rpc = "idle"
    /\ edges = <<>>
    /\ edge_idx = 1
    /\ uf = [parent |-> <<>>, rank |-> <<>>, nodes |-> <<>>]
    /\ rings = <<>>

ResolverIdle ==
    /\ cpc = "idle"
    /\ officers = <<>>
    /\ batch_size = 1
    /\ batch_start = 0
    /\ names = <<>>
    /\ insert_rows = {}
    /\ processed = {}

ChameleonIdle ==
    hpc = "idle"

\* no killed run is followed
NoResume ==
    resume = Null

NoTiers ==
    /\ tier_in = Null
    /\ tier_out = Null

NoPairs ==
    /\ group_in = Null
    /\ pairs_out = Null

LedgerIdleInit ==
    /\ lpc = "idle"
    /\ rule_idx = 1
    /\ reset_mode = FALSE
    /\ has_clusters = FALSE
    /\ has_violations = FALSE
    /\ executed = {}
    /\ failed_at = 0
    /\ jobs = 0
    /\ streak = 0
    /\ incr_snap = Null
    /\ reset_snap = Null

\* the carrier rows of the store: the four kinds of carrier in rotation f
RowKinds ==
    <<ShellCarrier, ForeignCarrier, DomesticCarrier, GhostCarrier>>

Fleet(n, f) ==
    [c \in 1..n |-> RowKinds[((c - 1 + f) % 4) + 1]]

\* a freshly ingested store: the ledger columns hold their column default
\* (NULL, or 0 and '{}') on every row, no detector has run
InitLedger ==
    /\ \E f \in 0..3 : carriers = Fleet(NumCarriers, f)
    /\ \E fresh \in BOOLEAN :
          /\ risk_score = [c \in Carriers |-> IF fresh THEN Null ELSE Some(0)]
          /\ risk_flags = [c \in Carriers |-> IF fresh THEN Null ELSE Some(<<>>)]
    /\ fleet_size_bucket = [c \in Carriers |-> NullText]
    /\ peer_percentiles = [c \in Carriers |-> Null]
    /\ \E k \in TierCounts :
          /\ address_clusters = AddressClustersOf(k)
          /\ carrier_principals = PrincipalsOf(k)
          /\ \E st \in {"absent", "empty", "rows"} :
                /\ clusters_exists = (st # "absent")
                /\ officer_network_clusters = IF st = "rows" THEN ClusterRowsOf(k) ELSE {}
    /\ chameleon_pairs = {}
    /\ fraud_rings = {}
    /\ violations_present \in BOOLEAN
    /\ LedgerIdleInit
    /\ RingsIdle
    /\ ResolverIdle
    /\ ChameleonIdle
    /\ NoResume
    /\ NoTiers
    /\ NoPairs

NextLedger ==
    \/ \E reset \in BOOLEAN : StartRun(reset)
    \/ ResetAllFlags
    \/ BatchUpdatePass
    \/ SimpleUpdate
    \/ SkipEld
    \/ ChameleonMain
    \/ \E k \in TierCounts : PrincipalsIngest(PrincipalsOf(k))
    \/ \E k \in TierCounts : RefreshAddressClusters(k)

\* the pipeline when no statement fails
SpecLedger ==
    InitLedger /\ [][NextLedger]_vars

NextFaults ==
    \/ \E reset \in BOOLEAN : StartRun(reset)
    \/ ResetAllFlags
    \/ BatchUpdatePass
    \/ SimpleUpdate
    \/ SkipEld
    \/ RuleError

\* the pipeline when no statement fails and a started run is not starved:
\* main is one sequential process, which executes the statement it stands at
SpecLedgerFair ==
    /\ SpecLedger
    /\ WF_vars(ResetAllFlags)
    /\ WF_vars(BatchUpdatePass)
    /\ WF_vars(SimpleUpdate)
    /\ WF_vars(SkipEld)

\* ledger runs in which any statement may raise
SpecFaults ==
    InitLedger /\ [][NextFaults]_vars

\* a store whose ledger columns hold their default, or what a run of a year
\* ago left: NEW_AUTHORITY and its 15 points on every carrier
InitResume ==
    /\ \E f \in 0..3 : carriers = Fleet(NumCarriers, f)
    /\ \E before \in {"null", "zero", "earlier"} :
          /\ risk_score = [c \in Carriers |-> IF before = "null" THEN Null
                                              ELSE IF before = "zero" THEN Some(0)
                                              ELSE Some(15)]
          /\ risk_flags = [c \in Carriers |-> IF before = "null" THEN Null
                                              ELSE IF before = "zero" THEN Some(<<>>)
                                              ELSE Some(<<"NEW_AUTHORITY">>)]
    /\ fleet_size_bucket = [c \in Carriers |-> NullText]
    /\ peer_percentiles = [c \in Carriers |-> Null]
    /\ \E k \in TierCounts :
          /\ address_clusters = AddressClustersOf(k)
          /\ carrier_principals = PrincipalsOf(k)
          /\ \E st \in {"absent", "rows"} :
                /\ clusters_exists = (st # "absent")
                /\ officer_network_clusters = IF st = "rows" THEN ClusterRowsOf(k) ELSE {}
    /\ chameleon_pairs = {}
    /\ fraud_rings = {}
    /\ violations_present \in BOOLEAN
    /\ LedgerIdleInit
    /\ RingsIdle
    /\ ResolverIdle
    /\ ChameleonIdle
    /\ resume = [phase |-> "none", backup |-> Null, killed |-> Null, result |-> Null]
    /\ NoTiers
    /\ NoPairs

NextResume ==
    \/ \E reset \in BOOLEAN : StartFollowed(reset)
    \/ ResetAllFlags
    \/ BatchUpdatePass
    \/ SimpleUpdate
    \/ SkipEld
    \/ KillRun
    \/ RestoreLedger

\* a ledger run killed at any point, the incremental run after it, and the
\* uninterrupted run it is compared with
SpecResume ==
    InitResume /\ [][NextResume]_vars

-----------------------------------------------------------------------------
(* The fraud ring detector over census files whose officers tie the        *)
(* carriers into rings, pairs or nothing.                                  *)

\* carrier_principals rows: every officer name of the set on every dot of dots
OfficersOn(officer_names, dots) ==
    {[officer_name_normalized |-> n, dot_number |-> d,
      officer_position |-> "Officer 1", phone |-> NullText,
      email |-> NullText] : n \in officer_names, d \in dots}

\* two officers on carriers 1 to 3, two others on the carriers from 4 on
TwoRingsFile ==
    OfficersOn({"A", "B"}, 1..3) \cup OfficersOn({"C", "D"}, 4..NumRingCarriers)

\* pairs of officers on carriers 1-2, 3-4 and 2-3: a chain of four carriers
ChainFile ==
    OfficersOn({"A", "B"}, {1, 2}) \cup OfficersOn({"C", "D"}, {3, 4})
        \cup OfficersOn({"E", "F"}, {2, 3})

\* two officers on carriers 1-2, two on carriers 3-4: strong edges, no ring
PairsFile ==
    OfficersOn({"A", "B"}, {1, 2}) \cup OfficersOn({"C", "D"}, {3, 4})

\* no two carriers share two officers
WeakFile ==
    OfficersOn({"A"}, 1..3) \cup OfficersOn({"B"}, {4, 5})

RingFiles ==
    {TwoRingsFile, ChainFile, PairsFile, WeakFile}

\* the officer names and the dots of a name in the rows P
NamesOf(P) ==
    {cp.officer_name_normalized : cp \in P}

DotsOf(P, n) ==
    {cp.dot_number : cp \in {r \in P : r.officer_name_normalized = n}}

\* officer_network_clusters rows for P when the resolver confirmed every
\* officer name as one identity
WholeClusters(P) ==
    {[officer_name_normalized |-> n, cluster_index |-> 0,
      member_dot_numbers |-> DotsOf(P, n), carrier_count |-> Cardinality(DotsOf(P, n)),
      link_signals |-> {"phone"}] : n \in NamesOf(P)}

\* officer_network_clusters rows for P when the resolver found no link to
\* the last carrier of each name
SplitClusters(P) ==
    LET last(n) == CHOOSE d \in DotsOf(P, n) : \A e \in DotsOf(P, n) : e <= d
    IN  {[officer_name_normalized |-> n, cluster_index |-> 0,
          member_dot_numbers |-> DotsOf(P, n) \ {last(n)},
          carrier_count |-> Cardinality(DotsOf(P, n)) - 1,
          link_signals |-> {"phone"}] : n \in NamesOf(P)}
        \cup
        {[officer_name_normalized |-> n, cluster_index |-> 1,
          member_dot_numbers |-> {last(n)}, carrier_count |-> 1,
          link_signals |-> {"name_only"}] : n \in NamesOf(P)}

InitRings ==
    /\ \E f \in 0..1 : carriers = Fleet(NumRingCarriers, f)
    /\ \E fresh \in BOOLEAN :
          /\ risk_score = [c \in Carriers |-> IF fresh THEN Null ELSE Some(0)]
          /\ risk_flags = [c \in Carriers |-> IF fresh THEN Null ELSE Some(<<>>)]
    /\ fleet_size_bucket = [c \in Carriers |-> NullText]
    /\ peer_percentiles = [c \in Carriers |-> Null]
    /\ address_clusters = AddressClustersOf(3)
    /\ carrier_principals \in RingFiles
    /\ \E st \in {"absent", "empty", "whole", "split"} :
          /\ clusters_exists = (st # "absent")
          /\ officer_network_clusters =
                IF st = "whole" THEN WholeClusters(carrier_principals)
                ELSE IF st = "split" THEN SplitClusters(carrier_principals)
                ELSE {}
    /\ chameleon_pairs = {}
    /\ fraud_rings = {}
    /\ violations_present = FALSE
    /\ LedgerIdleInit
    /\ RingsIdle
    /\ ResolverIdle
    /\ ChameleonIdle
    /\ NoResume
    /\ NoTiers
    /\ NoPairs

NextRings ==
    \/ BuildOfficerEdges
    \/ UnionStep
    \/ FindRings
    \/ SaveRings
    \/ ApplyFraudRingFlags
    \/ RefreshInsuranceStats
    \/ ComputePeerBenchmarks
    \/ \E P \in RingFiles : PrincipalsIngest(P)

\* detector runs between reloads of the census file
SpecRings ==
    InitRings /\ [][NextRings]_vars

-----------------------------------------------------------------------------
(* The fraud ring detector over an officer group wider than the pair       *)
(* window, and over a cycle of carriers.                                   *)

\* two officers on carriers 5 and 6, on dot 300, and each on PairWindow - 1
\* dots of its own that sort between them: in both groups dot 300 is
\* PairWindow places and more after carriers 5 and 6
WideFile ==
    OfficersOn({"X"}, {5, 6, 300} \cup Fillers(PairWindow - 1))
        \cup OfficersOn({"Y"}, {5, 6, 300} \cup {200 + i : i \in 1..(PairWindow - 1)})

\* five officers, each on three carriers in a row of the cycle 1-2-3-4-5-1:
\* neighbours share two officers, carriers two apart share one; carrier 6
\* shares officer A, and no other, with carriers 1, 2 and 3
CycleFile ==
    OfficersOn({"A"}, {1, 2, 3, 6}) \cup OfficersOn({"B"}, {2, 3, 4})
        \cup OfficersOn({"C"}, {3, 4, 5}) \cup OfficersOn({"D"}, {4, 5, 1})
        \cup OfficersOn({"E"}, {5, 1, 2})

InitWideRings ==
    /\ \E f \in 0..1 : carriers = Fleet(NumRingCarriers, f)
    /\ \E fresh \in BOOLEAN :
          /\ risk_score = [c \in Carriers |-> IF fresh THEN Null ELSE Some(0)]
          /\ risk_flags = [c \in Carriers |-> IF fresh THEN Null ELSE Some(<<>>)]
    /\ fleet_size_bucket = [c \in Carriers |-> NullText]
    /\ peer_percentiles = [c \in Carriers |-> Null]
    /\ address_clusters = AddressClustersOf(3)
    /\ carrier_principals \in {WideFile, CycleFile}
    /\ \E st \in {"absent", "whole", "split"} :
          /\ clusters_exists = (st # "absent")
          /\ officer_network_clusters =
                IF st = "whole" THEN WholeClusters(carrier_principals)
                ELSE IF st = "split" THEN SplitClusters(carrier_principals)
                ELSE {}
    /\ chameleon_pairs = {}
    /\ fraud_rings = {}
    /\ violations_present = FALSE
    /\ LedgerIdleInit
    /\ RingsIdle
    /\ ResolverIdle
    /\ ChameleonIdle
    /\ NoResume
    /\ NoTiers
    /\ NoPairs

NextWideRings ==
    \/ BuildOfficerEdges
    \/ UnionStep
    \/ FindRings
    \/ SaveRings
    \/ ApplyFraudRingFlags
    \/ RefreshInsuranceStats
    \/ ComputePeerBenchmarks

\* detector runs over one census file
SpecWideRings ==
    InitWideRings /\ [][NextWideRings]_vars

-----------------------------------------------------------------------------
(* The resolver over census files whose officers carry phones and emails.  *)

PrincipalRow(n, d, position, phone, email) ==
    [officer_name_normalized |-> n, dot_number |-> d, officer_position |-> position,
     phone |-> phone, email |-> email]

\* officer A: carriers 1 and 2 share a phone, 3 and 4 an email address up to
\* its case and the co-officer B; the phone of 3 is too short to count
LinksFile ==
    {PrincipalRow("A", 1, "Officer 1", "5551234567", "noat"),
     PrincipalRow("A", 2, "Officer 1", "5551234567", NullText),
     PrincipalRow("A", 3, "Officer 1", "555", "x@y.com"),
     PrincipalRow("A", 4, "Officer 1", NullText, "X@Y.COM"),
     PrincipalRow("B", 3, "Officer 2", NullText, NullText),
     PrincipalRow("B", 4, "Officer 2", NullText, NullText)}

\* officer A: a phone and an email link chain carriers 1, 2 and 3; carrier 4
\* has neither phone nor email
ChainLinksFile ==
    {PrincipalRow("A", 1, "Officer 1", "5551234567", NullText),
     PrincipalRow("A", 2, "Officer 1", "5551234567", "x@y.com"),
     PrincipalRow("A", 3, "Officer 1", "5559990000", "x@y.com"),
     PrincipalRow("A", 4, "Officer 1", NullText, NullText)}

\* officer A without phone or email on all carriers but the last; officer C
\* is both officers of carrier 1 and an officer of carrier 2
LooseFile ==
    {PrincipalRow("A", d, "Officer 1", NullText, NullText) :
        d \in 1..(NumClusterCarriers - 1)}
    \cup {PrincipalRow("C", 1, "Officer 1", "5551234567", NullText),
          PrincipalRow("C", 1, "Officer 2", "5559990000", NullText),
          PrincipalRow("C", 2, "Officer 1", NullText, NullText)}

\* officer A on four carriers: 1 and 2 give the same phone, 3 and 4 neither
\* phone nor email
PhoneAddressFile ==
    {PrincipalRow("A", 1, "Officer 1", "5551234567", NullText),
     PrincipalRow("A", 2, "Officer 1", "5551234567", NullText),
     PrincipalRow("A", 3, "Officer 1", NullText, NullText),
     PrincipalRow("A", 4, "Officer 1", NullText, NullText)}

ClusterFiles ==
    {LinksFile, ChainLinksFile, LooseFile, PhoneAddressFile}

InitClusters ==
    /\ \E f \in 0..3 : carriers = Fleet(NumClusterCarriers, f)
    /\ risk_score = [c \in Carriers |-> Null]
    /\ risk_flags = [c \in Carriers |-> Null]
    /\ fleet_size_bucket = [c \in Carriers |-> NullText]
    /\ peer_percentiles = [c \in Carriers |-> Null]
    /\ address_clusters = AddressClustersOf(3)
    /\ carrier_principals \in ClusterFiles
    /\ clusters_exists = TRUE
    /\ officer_network_clusters = {}
    /\ chameleon_pairs = {}
    /\ fraud_rings = {}
    /\ violations_present = FALSE
    /\ LedgerIdleInit
    /\ RingsIdle
    /\ ResolverIdle
    /\ ChameleonIdle
    /\ NoResume
    /\ NoTiers
    /\ NoPairs

NextClusters ==
    \/ \E P \in ClusterFiles : StartClusters(P)
    \/ FetchBatch
    \/ ClusterOfficer
    \/ InsertBatch

\* resolver runs over one census file
SpecClusters ==
    InitClusters /\ [][NextClusters]_vars

-----------------------------------------------------------------------------
(* The chameleon detector over carriers that close and reopen.             *)

\* a carrier row of the census file: status code, status, authority grant
\* date, address hash and phone as given
CensusRow(code, status, date, address_hash, phone) ==
    [DomesticCarrier EXCEPT !.operating_status_code = code,
                            !.operating_status = status,
                            !.authority_grant_date = date,
                            !.address_hash = address_hash,
                            !.phone = phone]

\* closed; reopened 365 days later at the same address with the same phone;
\* reopened 366 days later; inactive by its code with an authorized status,
\* elsewhere, same phone; the same 100 days later, without a phone; a row
\* of NULLs
CensusKinds ==
    << CensusRow("I", "NOT AUTHORIZED", 100, "H1", "5551234567"),
       CensusRow("A", "AUTHORIZED FOR Property", 100 + MAX_GAP_DAYS, "H1", "5551234567"),
       CensusRow("A", "AUTHORIZED", 101 + MAX_GAP_DAYS, "H1", NullText),
       CensusRow("I", "AUTHORIZED FOR Property", 200, "H2", "5551234567"),
       CensusRow("I", "AUTHORIZED", 300, "H2", NullText),
       CensusRow(NullText, NullText, NullDate, NullText, NullText) >>

\* census files of officers: none, one officer on carriers 1 and 2, one on
\* every carrier, one on 1 and 2 and another from 2 on
ChameleonFiles ==
    { {},
      OfficersOn({"A"}, 1..2),
      OfficersOn({"A"}, 1..NumChameleonCarriers),
      OfficersOn({"A"}, 1..2) \cup OfficersOn({"B"}, 2..NumChameleonCarriers) }

\* ingest.py bulk_insert of a census file in which the row of carrier c has
\* changed: INSERT ... ON CONFLICT (dot_number) DO UPDATE of the DB_COLUMNS,
\* which risk_score and risk_flags are not among
CensusIngest(c, row) ==
    /\ Quiet
    /\ jobs < MaxJobs
    /\ jobs' = jobs + 1
    /\ carriers[c] # row
    /\ carriers' = [carriers EXCEPT ![c] = row]
    /\ streak' = 0
    /\ incr_snap' = Null
    /\ UNCHANGED <<risk_score, risk_flags, fleet_size_bucket, peer_percentiles,
                   address_clusters, carrier_principals, clusters_exists,
                   officer_network_clusters, chameleon_pairs, fraud_rings,
                   violations_present>>
    /\ LedgerExited /\ RingsExited /\ ResolverExited /\ ChameleonExited
    /\ UNCHANGED <<reset_snap, resumeVars, tierVars, pairVars>>

\* the ledger columns hold their default, or the flags and points an earlier
\* run of the detector gave
InitChameleons ==
    /\ carriers \in [1..NumChameleonCarriers -> Range(CensusKinds)]
    /\ \E before \in {"null", "earlier"} :
          /\ risk_score = [c \in Carriers |-> IF before = "null" THEN Null ELSE Some(50)]
          /\ risk_flags = [c \in Carriers |->
                             IF before = "null" THEN Null
                             ELSE Some(<<"CHAMELEON_SUCCESSOR", "CHAMELEON_PREDECESSOR">>)]
    /\ fleet_size_bucket = [c \in Carriers |-> NullText]
    /\ peer_percentiles = [c \in Carriers |-> Null]
    /\ address_clusters = AddressClustersOf(3)
    /\ carrier_principals \in ChameleonFiles
    /\ clusters_exists = FALSE
    /\ officer_network_clusters = {}
    /\ chameleon_pairs = {}
    /\ fraud_rings = {}
    /\ violations_present = FALSE
    /\ LedgerIdleInit
    /\ RingsIdle
    /\ ResolverIdle
    /\ ChameleonIdle
    /\ NoResume
    /\ NoTiers
    /\ NoPairs

NextChameleons ==
    \/ StartChameleons
    \/ AddressPairs
    \/ OfficerPairs
    \/ MergeOfficerSignal
    \/ MergePhoneSignal
    \/ SetConfidence
    \/ FlagSuccessors
    \/ FlagPredecessors
    \/ \E c \in Carriers : \E k \in 1..2 : CensusIngest(c, CensusKinds[k])

\* runs of the chameleon detector, the census re-ingested between them
SpecChameleons ==
    InitChameleons /\ [][NextChameleons]_vars

-----------------------------------------------------------------------------
(* The confidence CASEs of the two detectors, applied to counts.           *)

\* two signal counts of chameleon pairs; two carrier counts of rings with
\* the same crash and fatality totals
InitTiers ==
    /\ carriers = Fleet(NumCarriers, 0)
    /\ risk_score = [c \in Carriers |-> Null]
    /\ risk_flags = [c \in Carriers |-> Null]
    /\ fleet_size_bucket = [c \in Carriers |-> NullText]
    /\ peer_percentiles = [c \in Carriers |-> Null]
    /\ address_clusters = AddressClustersOf(3)
    /\ carrier_principals = {}
    /\ clusters_exists = FALSE
    /\ officer_network_clusters = {}
    /\ chameleon_pairs = {}
    /\ fraud_rings = {}
    /\ violations_present = FALSE
    /\ LedgerIdleInit
    /\ RingsIdle
    /\ ResolverIdle
    /\ ChameleonIdle
    /\ NoResume
    /\ \E s1 \in 0..MaxSignalCount, s2 \in 0..MaxSignalCount,
          m1 \in 1..MaxMemberCount, m2 \in 1..MaxMemberCount,
          total_crashes \in 0..MaxCrashTotal, total_fatalities \in 0..MaxFatalityTotal :
          tier_in = Some([signal_count |-> <<s1, s2>>, carrier_count |-> <<m1, m2>>,
                          total_crashes |-> total_crashes,
                          total_fatalities |-> total_fatalities])
    /\ tier_out = Null
    /\ NoPairs

\* step 5 of detect_chameleon_pairs on the two signal counts and the CASE
\* of save_rings on the two carrier counts
AssignConfidence ==
    /\ tier_in # Null
    /\ tier_out = Null
    /\ LET given == tier_in[1]
       IN  tier_out' =
              Some([chameleon |-> [i \in 1..2 |-> ChameleonConfidence(given.signal_count[i])],
                    ring |-> [i \in 1..2 |->
                                RingConfidence(given.carrier_count[i], given.total_crashes,
                                               given.total_fatalities)]])
    /\ UNCHANGED tier_in
    /\ UNCHANGED <<storeVars, ledgerVars, histVars, ringVars, clusterVars,
                   chameleonVars, resumeVars, pairVars>>

NextTiers ==
    AssignConfidence

SpecTiers ==
    InitTiers /\ [][NextTiers]_vars

-----------------------------------------------------------------------------
(* The three writers of the ledger columns over one store.                 *)

\* a store whose ledger columns hold their default or were reset: a closed
\* carrier, a foreign carrier authorized 300 days later at the same address
\* and a domestic carrier, all three under the officers A and B
InitScores ==
    /\ carriers = Fleet(3, 0)
    /\ \E fresh \in BOOLEAN :
          /\ risk_score = [c \in Carriers |-> IF fresh THEN Null ELSE Some(0)]
          /\ risk_flags = [c \in Carriers |-> IF fresh THEN Null ELSE Some(<<>>)]
    /\ fleet_size_bucket = [c \in Carriers |-> NullText]
    /\ peer_percentiles = [c \in Carriers |-> Null]
    /\ \E k \in {3, 12} : address_clusters = AddressClustersOf(k)
    /\ carrier_principals = OfficersOn({"A", "B"}, 1..3)
    /\ clusters_exists = FALSE
    /\ officer_network_clusters = {}
    /\ chameleon_pairs = {}
    /\ fraud_rings = {}
    /\ violations_present \in BOOLEAN
    /\ LedgerIdleInit
    /\ RingsIdle
    /\ ResolverIdle
    /\ ChameleonIdle
    /\ NoResume
    /\ NoTiers
    /\ NoPairs

NextScores ==
    \/ \E reset \in BOOLEAN : StartRun(reset)
    \/ ResetAllFlags
    \/ BatchUpdatePass
    \/ SimpleUpdate
    \/ SkipEld
    \/ StartChameleons
    \/ AddressPairs
    \/ OfficerPairs
    \/ MergeOfficerSignal
    \/ MergePhoneSignal
    \/ SetConfidence
    \/ FlagSuccessors
    \/ FlagPredecessors
    \/ BuildOfficerEdges
    \/ UnionStep
    \/ FindRings
    \/ SaveRings
    \/ ApplyFraudRingFlags
    \/ RefreshInsuranceStats
    \/ ComputePeerBenchmarks

\* ledger runs, chameleon detector runs and fraud ring detector runs, one
\* after the other in any order, every commit a state
SpecScores ==
    InitScores /\ [][NextScores]_vars

-----------------------------------------------------------------------------
(* The pair loops of find_links and build_officer_edges on one group.      *)

\* what groups the carriers: a phone, an email address, an address
\* identifier, a co-officer or the state in find_links, the officer identity
\* in build_officer_edges
GroupSignals ==
    {"phone", "email", "address", "co_officer", "same_state", "officer"}

\* the carriers 1..g.size of officer A as rows of the resolver's query, all
\* with the same value of the column of the signal and nothing else
GroupRows(g) ==
    {[dot_number |-> d, officer_position |-> "Officer 1",
      phone |-> IF g.signal = "phone" THEN "5551234567" ELSE NullText,
      email |-> IF g.signal = "email" THEN "x@y.com" ELSE NullText,
      address_hash |-> IF g.signal = "address" THEN "H1" ELSE NullText,
      physical_state |-> IF g.signal = "same_state" THEN "TX" ELSE NullText,
      total_crashes |-> 0, fatal_crashes |-> 0, power_units |-> 1] : d \in 1..g.size}

\* their officers: A, and with the signal co_officer a second officer B
GroupCoMap(g) ==
    [d \in 1..g.size |-> IF g.signal = "co_officer" THEN {"A", "B"} ELSE {"A"}]

\* the row of the edge query for officer A on the carriers 1..g.size
GroupQueryRow(g) ==
    [officer_name |-> "A", cluster_idx |-> 0, member_dots |-> 1..g.size]

InitPairs ==
    /\ carriers = Fleet(NumCarriers, 0)
    /\ risk_score = [c \in Carriers |-> Null]
    /\ risk_flags = [c \in Carriers |-> Null]
    /\ fleet_size_bucket = [c \in Carriers |-> NullText]
    /\ peer_percentiles = [c \in Carriers |-> Null]
    /\ address_clusters = AddressClustersOf(3)
    /\ carrier_principals = {}
    /\ clusters_exists = FALSE
    /\ officer_network_clusters = {}
    /\ chameleon_pairs = {}
    /\ fraud_rings = {}
    /\ violations_present = FALSE
    /\ LedgerIdleInit
    /\ RingsIdle
    /\ ResolverIdle
    /\ ChameleonIdle
    /\ NoResume
    /\ NoTiers
    /\ \E size \in 2..MaxGroupSize, signal \in GroupSignals :
          group_in = Some([size |-> size, signal |-> signal])
    /\ pairs_out = Null

\* find_links on the group: the pairs of the links it returns
FindLinksOfGroup ==
    /\ group_in # Null
    /\ pairs_out = Null
    /\ group_in[1].signal # "officer"
    /\ pairs_out' =
          Some({<<l.a, l.b>> : l \in FindLinks(GroupRows(group_in[1]),
                                               GroupCoMap(group_in[1]), "A")})
    /\ UNCHANGED group_in
    /\ UNCHANGED <<storeVars, ledgerVars, histVars, ringVars, clusterVars,
                   chameleonVars, resumeVars, tierVars>>

\* the pair loop of build_officer_edges on the group: the keys of
\* pair_officers
PairOfficersOfGroup ==
    /\ group_in # Null
    /\ pairs_out = Null
    /\ group_in[1].signal = "officer"
    /\ pairs_out' =
          Some({e.pair : e \in Range(PairOfficers(<<>>, <<GroupQueryRow(group_in[1])>>,
                                                  FALSE))})
    /\ UNCHANGED group_in
    /\ UNCHANGED <<storeVars, ledgerVars, histVars, ringVars, clusterVars,
                   chameleonVars, resumeVars, tierVars>>

NextPairs ==
    \/ FindLinksOfGroup
    \/ PairOfficersOfGroup

SpecPairs ==
    InitPairs /\ [][NextPairs]_vars

-----------------------------------------------------------------------------
(* Properties of the ledger.                                               *)

AddressTierGroup ==
    {"ADDRESS_OVERLAP_5+", "ADDRESS_OVERLAP_10+", "ADDRESS_OVERLAP_25+"}

OfficerTierGroup ==
    {"OFFICER_5_PLUS", "OFFICER_10_PLUS", "OFFICER_25_PLUS"}

\* the number of flags of the group that carrier c holds
HeldOf(c, group) ==
    Cardinality({i \in 1..Len(Flags(c)) : Flags(c)[i] \in group})

\* C1: tier exclusivity.  When a run of the ledger has completed, reset or
\* incremental, whatever the earlier jobs left and however the cluster sizes
\* changed between the runs, every carrier holds at most one flag of the
\* address-overlap group and at most one flag of the officer group.
TierExclusivity ==
    lpc = "done" =>
        \A c \in Carriers :
            /\ HeldOf(c, AddressTierGroup) <= 1
            /\ HeldOf(c, OfficerTierGroup) <= 1

\* C2: idempotence.  During and at the end of an incremental run that starts
\* right after a completed incremental run, with no job between the two, the
\* risk_score and the risk_flags of every carrier are those the first run left.
Idempotence ==
    (lpc \in {"rules", "done"} /\ ~reset_mode /\ incr_snap # Null) =>
        LedgerNow = incr_snap[1]

\* a second incremental run in a row has completed, on a ledger where the
\* first one had flags to add, the one of the simple update among them
IdempotenceWitness ==
    /\ lpc = "done"
    /\ ~reset_mode
    /\ streak = 2
    /\ executed = 1..NumRules
    /\ \E c \in Carriers : AnyEq("HIGH_ELD_VIOLATION_RATE", Flags(c))
    /\ \E c \in Carriers : Len(Flags(c)) >= 3

\* C3: reset determinism.  When a reset run completes over the data a first
\* reset run ended on, whatever the ledger held before either run, every
\* carrier has the risk_score and the flag set the first reset run gave it.
ResetDeterminism ==
    (lpc = "done" /\ reset_mode /\ reset_snap # Null /\ reset_snap[1].data = DataNow) =>
        \A c \in Carriers :
            /\ risk_score[c] = reset_snap[1].score[c]
            /\ Range(Flags(c)) = Range(Coalesce(reset_snap[1].flags[c], <<>>))

\* C4: the ledger applies the chameleon and fraud ring families.  When a run
\* of the ledger has completed, every successor of a medium or high chameleon
\* pair holds CHAMELEON_SUCCESSOR, every predecessor of one holds
\* CHAMELEON_PREDECESSOR and every member of a medium or high fraud ring
\* holds FRAUD_RING.
LedgerAppliesDetectorFlags ==
    lpc = "done" =>
        \A c \in Carriers :
            /\ c \in ChameleonSuccessors(chameleon_pairs)
                  => AnyEq("CHAMELEON_SUCCESSOR", Flags(c))
            /\ c \in ChameleonPredecessors(chameleon_pairs)
                  => AnyEq("CHAMELEON_PREDECESSOR", Flags(c))
            /\ (\E r \in fraud_rings : /\ r.confidence \in {"medium", "high"}
                                        /\ AnyEq(c, r.carrier_dots))
                  => AnyEq("FRAUD_RING", Flags(c))

\* C10: error isolation.  When a statement of a ledger run has raised, every
\* rule after the failing one has still been applied by the time the run ends
\* (the ELD rule counts as applied when there are no violation records).
ErrorIsolation ==
    lpc = "failed" =>
        \A i \in (failed_at + 1)..NumRules :
            i \in executed \/ (~Rules[i].batched /\ ~has_violations)

\* the flags of the ledger L on carrier c
FlagsOf(L, c) ==
    Coalesce(L.flags[c], <<>>)

\* the carrier holds in the ledger now whatever it held in the ledger L
KeepsWhatItHeld(L, c) ==
    /\ Len(Flags(c)) >= Len(FlagsOf(L, c))
    /\ SubSeq(Flags(c), 1, Len(FlagsOf(L, c))) = FlagsOf(L, c)
    /\ Coalesce(risk_score[c], 0) >= Coalesce(L.score[c], 0)

\* the ledger now gives every carrier the risk_score and the flag set of L
SameOutcome(L) ==
    \A c \in Carriers :
        /\ risk_score[c] = L.score[c]
        /\ Range(Flags(c)) = Range(FlagsOf(L, c))

\* C11 as stated: resumability.  A ledger run of either mode is killed at any
\* point, the reset statement not yet committed included; while the
\* incremental run after it runs, every carrier keeps what the killed run had
\* committed; and when the run of the killed run's mode completes
\* uninterrupted on the ledger the killed run had started from, it gives every
\* carrier the risk_score and the flag set the incremental run ended with.
ResumabilityAnyKill ==
    /\ (resume # Null /\ resume.phase = "resuming")
          => \A c \in Carriers : KeepsWhatItHeld(resume.killed[1], c)
    /\ (resume # Null /\ resume.phase = "replay" /\ lpc = "done")
          => SameOutcome(resume.result[1])

\* C11 amended: resumability of a run killed after its first commit point.
\* The same, for an incremental run killed at any point and for a reset run
\* killed once reset_all_flags has committed.
Resumability ==
    /\ (resume # Null /\ resume.phase = "resuming")
          => \A c \in Carriers : KeepsWhatItHeld(resume.killed[1], c)
    /\ (resume # Null /\ resume.phase = "replay" /\ lpc = "done"
          /\ resume.killed[1].at = "rules")
          => SameOutcome(resume.result[1])

\* a reset run was killed in the middle of the rules, some flags committed
\* and some not, and both the incremental run after it and the uninterrupted
\* reset run have completed
ResumabilityWitness ==
    /\ resume # Null
    /\ resume.phase = "replay"
    /\ lpc = "done"
    /\ resume.backup[1].reset
    /\ resume.killed[1].at = "rules"
    /\ \E c \in Carriers :
          /\ Len(FlagsOf(resume.killed[1], c)) >= 1
          /\ Len(FlagsOf(resume.killed[1], c)) < Len(Flags(c))

-----------------------------------------------------------------------------
\* the carriers whose risk_flags the step changes
Updated ==
    {c \in Carriers : risk_flags'[c] # risk_flags[c]}

\* C23: chunk commits follow a stable key.  Every pass of a rule's chunked
\* update takes its candidates in the order of the carrier IDs: a carrier is
\* updated by a pass only together with every candidate of a lower ID, so the
\* sequence of the committed chunks is the same on every rerun.
ChunksInIdOrder ==
    [][(lpc = "rules" /\ Rules[rule_idx].batched) =>
          \A c \in Updated :
              \A d \in Candidates(rule_idx) : d < c => d \in Updated]_vars

-----------------------------------------------------------------------------
\* a pass of batch_update's loop for the rule rule_idx
InBatchUpdate ==
    lpc = "rules" /\ Rules[rule_idx].batched

\* C24: chunked update terminates and is exhaustive.  With unchanged data
\* and no other writer, every pass of a rule run through batch_update
\* updates at most batch_size carriers, all of them candidates of the rule;
\* an updated carrier is no candidate of the rule after the pass, nor is
\* any carrier that holds the rule's flag; the loop goes on exactly while a
\* pass updates a carrier, and when it ends the rule has no candidate left;
\* every started run reaches its end.
ChunkedUpdateExhaustive ==
    /\ [][InBatchUpdate =>
             \A i \in {rule_idx} :
                /\ Cardinality(Updated) <= LedgerBatch
                /\ Updated \subseteq Candidates(i)
                /\ \A c \in Updated : ~(Candidate(i, c))'
                /\ Updated # {} => (lpc' = "rules" /\ rule_idx' = i)
                /\ Updated = {} =>
                      /\ lpc' = "done" \/ rule_idx' = i + 1
                      /\ Candidates(i) = {}
                      /\ (Candidates(i))' = {}]_vars
    /\ [](\A i \in 1..NumRules : \A c \in Carriers :
             (Rules[i].batched /\ AnyEq(Rules[i].flag, Flags(c))) => ~Candidate(i, c))
    /\ (lpc = "rules") ~> (lpc = "done")

\* a rule's loop has ended after three passes and more: with the batch size
\* below the number of its candidates, every carrier holds the rule's flag
\* and the run stands at the next rule
ChunkedUpdateExhaustiveWitness ==
    /\ lpc = "rules"
    /\ rule_idx > 1
    /\ Rules[rule_idx - 1].batched
    /\ Cardinality(Carriers) > LedgerBatch
    /\ \A c \in Carriers : AnyEq(Rules[rule_idx - 1].flag, Flags(c))
    /\ Candidates(rule_idx - 1) = {}

-----------------------------------------------------------------------------
\* the largest of the numbers of S, 0 when there is none
MaxOf(S) ==
    IF S = {} THEN 0 ELSE CHOOSE m \in S : \A x \in S : x <= m

\* the carrier_count of the largest address cluster of carrier c
AddressClusterSize(c) ==
    MaxOf({ac.carrier_count : ac \in {x \in address_clusters :
              carriers[c].address_hash # NullText
              /\ x.address_hash = carriers[c].address_hash}})

\* the size of the largest identity cluster that holds carrier c, or, in
\* the fallback mode, of the largest raw name group of its officers
OfficerGroupSize(c) ==
    IF has_clusters
    THEN MaxOf({onc.carrier_count : onc \in {x \in officer_network_clusters :
                   c \in x.member_dot_numbers}})
    ELSE MaxOf({NameCount(cp.officer_name_normalized) : cp \in {x \in carrier_principals :
                   x.dot_number = c}})

\* the flags of a tier group a size calls for: the one of the highest tier
\* it reaches; tiers is <<5+ flag, 10+ flag, 25+ flag>>
TierFlags(size, tiers) ==
    IF size >= 25 THEN {tiers[3]}
    ELSE IF size >= 10 THEN {tiers[2]}
    ELSE IF size >= 5 THEN {tiers[1]}
    ELSE {}

\* the flags of the group among the flags of carrier c
HeldFlags(c, group) ==
    Range(Flags(c)) \cap group

\* every carrier holds, of each tier group, the flag of the highest tier
\* its cluster reaches, once, and no other
HighestTierHeld ==
    \A c \in Carriers :
        /\ HeldFlags(c, AddressTierGroup)
              = TierFlags(AddressClusterSize(c),
                          <<"ADDRESS_OVERLAP_5+", "ADDRESS_OVERLAP_10+", "ADDRESS_OVERLAP_25+">>)
        /\ HeldOf(c, AddressTierGroup) <= 1
        /\ HeldFlags(c, OfficerTierGroup)
              = TierFlags(OfficerGroupSize(c),
                          <<"OFFICER_5_PLUS", "OFFICER_10_PLUS", "OFFICER_25_PLUS">>)
        /\ HeldOf(c, OfficerTierGroup) <= 1

\* C25: highest tier wins.  At the end of a reset-mode run a carrier whose
\* address cluster has 25 carriers and more holds ADDRESS_OVERLAP_25+ and
\* neither lower variant, one with 10 to 24 exactly ADDRESS_OVERLAP_10+, one
\* with 5 to 9 exactly ADDRESS_OVERLAP_5+, one below 5 none; the same for
\* the OFFICER_* flags and the largest identity cluster, or raw name group
\* in the fallback mode, that holds the carrier.
HighestTierWins ==
    [][(lpc = "rules" /\ lpc' = "done" /\ reset_mode) => HighestTierHeld']_vars

\* a reset-mode run is done that started from a ledger with a flag of a
\* lower tier: a carrier whose address counts 25 carriers and more holds the
\* 25+ flag alone, and a carrier of an identity cluster of 10 to 24 holds
\* OFFICER_10_PLUS
HighestTierWinsWitness ==
    /\ lpc = "done"
    /\ reset_mode
    /\ HighestTierHeld
    /\ jobs >= 3
    /\ \E c \in Carriers :
          /\ AddressClusterSize(c) >= 25
          /\ HeldFlags(c, AddressTierGroup) = {"ADDRESS_OVERLAP_25+"}
    /\ \E c \in Carriers :
          /\ OfficerGroupSize(c) \in 10..24
          /\ HeldFlags(c, OfficerTierGroup) = {"OFFICER_10_PLUS"}

-----------------------------------------------------------------------------
(* Properties of the fraud ring detector.                                  *)

\* C5: single writer.  No step of a run of the fraud ring detector, its
\* flag step and its peer-benchmark job included, changes a row of the
\* carriers table: the base attributes, risk_score, risk_flags,
\* fleet_size_bucket and the peer percentiles stay as they were.
DetectorsLeaveCarriers ==
    [][rpc' # "idle" =>
          UNCHANGED <<carriers, risk_score, risk_flags, fleet_size_bucket,
                      peer_percentiles>>]_vars

\* C7: ring non-overlap.  No carrier is a member of two distinct rings of
\* the result of find_rings.
RingNonOverlap ==
    \A i \in 1..Len(rings) : \A j \in 1..Len(rings) :
        i # j => rings[i].members \cap rings[j].members = {}

\* find_rings has returned two rings
RingNonOverlapWitness ==
    /\ rpc = "save"
    /\ Len(rings) >= 2
    /\ \A i \in 1..Len(rings) : Cardinality(rings[i].members) >= MIN_RING_SIZE

\* C8: wholesale replacement.  When a run of the detector has completed,
\* the member sets of the rows of fraud_rings are exactly the rings that run
\* computed; when it found no strong edge or no ring, the table is empty.
RingsReplaced ==
    rpc = "done" =>
        {r.carrier_dots : r \in fraud_rings}
            = {SortedSeq(rings[i].members) : i \in 1..Len(rings)}

\* C9: missing-dependency fallback.  During a detector run that found the
\* table officer_network_clusters absent, or present and empty, the strong
\* edges are those of the raw officer-name grouping of carrier_principals.
FallbackToRawNames ==
    (rpc \notin {"idle", "done"} /\ ~(clusters_exists /\ officer_network_clusters # {})) =>
        Range(edges) = Range(StrongEdges(CHOOSE rows \in Perms(RawQueryRowsHaving) : TRUE,
                                         FALSE))

-----------------------------------------------------------------------------
(* Properties of find_rings.                                               *)

\* the rows the detector reads in the present store
EdgeQueryRows ==
    IF UseClusters THEN ClusterQueryRows ELSE RawQueryRowsHaving

\* the identity keys that connect the dots a and b: those of the rows that
\* have both among their members
KeysConnecting(a, b) ==
    {IdentityKey(row, UseClusters) :
        row \in {r \in EdgeQueryRows : a \in r.member_dots /\ b \in r.member_dots}}

\* the identity keys of the rows in which b is less than PairWindow places
\* after a among the sorted members
KeysWithinWindow(a, b) ==
    {IdentityKey(row, UseClusters) :
        row \in {r \in EdgeQueryRows :
                    /\ a \in r.member_dots /\ b \in r.member_dots
                    /\ Cardinality({d \in r.member_dots : a < d /\ d <= b}) < PairWindow}}

AllDots ==
    UNION {r.member_dots : r \in EdgeQueryRows}

\* the pairs connected by two distinct identity keys and more
PairsOfTwoKeys ==
    {e \in AllDots \X AllDots :
        e[1] < e[2] /\ Cardinality(KeysConnecting(e[1], e[2])) >= 2}

\* the pairs that two distinct identity keys and more connect within the window
PairsOfTwoKeysWithinWindow ==
    {e \in AllDots \X AllDots :
        e[1] < e[2] /\ Cardinality(KeysWithinWindow(e[1], e[2])) >= 2}

\* the dots that a path of edges of E leads to from the dots S
RECURSIVE ReachedFrom(_, _)
ReachedFrom(S, E) ==
    LET T == S \cup {e[2] : e \in {x \in E : x[1] \in S}}
                \cup {e[1] : e \in {x \in E : x[2] \in S}}
    IN  IF T = S THEN S ELSE ReachedFrom(T, E)

\* the connected components of three dots and more of the graph of edges E
ComponentsOfThree(E) ==
    {C \in {ReachedFrom({e[1]}, E) : e \in E} : Cardinality(C) >= 3}

\* the run is past find_rings, or past the test that skips it for want of
\* edges
PastFindRings ==
    rpc \in {"save", "flags", "insurance", "bench", "done"}

\* C16 as stated: the rings of a run are the connected components of three
\* carriers and more of the graph whose edges are the pairs connected by two
\* distinct identity keys and more.
RingsAreComponentsOfAllPairs ==
    PastFindRings =>
        /\ {rings[i].members : i \in 1..Len(rings)} = ComponentsOfThree(PairsOfTwoKeys)
        /\ Len(rings) = Cardinality(ComponentsOfThree(PairsOfTwoKeys))

\* C16, amended: the rings of a run are, each once, the connected components
\* of three carriers and more of the graph whose edges are the pairs that
\* two distinct identity keys and more connect within the pair window, a
\* key counting for a pair when the second carrier is less than 50 places
\* after the first among the sorted members of the key's group; a pair with
\* one key is no edge.
RingsAreComponents ==
    PastFindRings =>
        /\ {rings[i].members : i \in 1..Len(rings)}
              = ComponentsOfThree(PairsOfTwoKeysWithinWindow)
        /\ Len(rings) = Cardinality(ComponentsOfThree(PairsOfTwoKeysWithinWindow))

\* a run over the cycle is done: one ring, of the five carriers of the
\* cycle, and carrier 6, which one key connects to carrier 1, in no ring
RingsAreComponentsWitness ==
    /\ rpc = "done"
    /\ Len(rings) = 1
    /\ rings[1].members = 1..5
    /\ Cardinality(KeysConnecting(1, 6)) = 1
    /\ \A e \in {<<1, 2>>, <<2, 3>>, <<3, 4>>, <<4, 5>>, <<1, 5>>} :
          Cardinality(KeysConnecting(e[1], e[2])) = 2

\* the carriers of the rows of fraud_rings with confidence medium or high
ConfidentRingCarriers ==
    {c \in Carriers : \E r \in fraud_rings :
        r.confidence \in {"medium", "high"} /\ AnyEq(c, r.carrier_dots)}

\* C17: fraud ring flag.  Once a run that saved rings has applied the flags,
\* every carrier of a medium or high ring holds FRAUD_RING; the flag
\* application changes the carriers of medium or high rings that did not
\* hold the flag, by appending the flag once and adding 25, and no other
\* carrier; and through runs and re-runs no carrier holds the flag twice.
FraudRingFlag ==
    /\ []((rpc \in {"insurance", "bench", "done"} /\ rings # <<>>) =>
            \A c \in ConfidentRingCarriers : AnyEq("FRAUD_RING", Flags(c)))
    /\ [](\A c \in Carriers : Times("FRAUD_RING", Flags(c)) <= 1)
    /\ [][rpc = "flags" =>
            \A c \in Carriers :
                IF c \in ConfidentRingCarriers /\ ~AnyEq("FRAUD_RING", Flags(c))
                THEN /\ risk_flags'[c] = Some(Append(Flags(c), "FRAUD_RING"))
                     /\ risk_score'[c] = Some(Coalesce(risk_score[c], 0) + 25)
                ELSE /\ risk_flags'[c] = risk_flags[c]
                     /\ risk_score'[c] = risk_score[c]]_vars

\* a run that was not the first job has saved a medium ring and a low ring:
\* a carrier of the medium ring holds the flag once and its 25 points, a
\* carrier of the low ring does not hold the flag
FraudRingFlagWitness ==
    /\ rpc = "done"
    /\ jobs >= 2
    /\ rings # <<>>
    /\ \E r \in fraud_rings :
          /\ r.confidence = "medium"
          /\ \E c \in Carriers :
                /\ AnyEq(c, r.carrier_dots)
                /\ Flags(c) = <<"FRAUD_RING">>
                /\ risk_score[c] = Some(25)
    /\ \E r \in fraud_rings :
          /\ r.confidence = "low"
          /\ \E c \in Carriers :
                AnyEq(c, r.carrier_dots) /\ ~AnyEq("FRAUD_RING", Flags(c))

-----------------------------------------------------------------------------
(* Properties of the identity cluster resolver.                            *)

\* the rows written for the officer name n, committed or in insert_rows
RowsWrittenFor(n) ==
    {r \in officer_network_clusters \cup insert_rows : r.officer_name_normalized = n}

\* C6: partition property.  For every officer name the run has clustered,
\* whatever the links and the order of the unions, the member sets of the
\* rows written for the name are pairwise disjoint and their union is the
\* set of the carriers affiliated with the name.
PartitionProperty ==
    \A n \in processed :
        /\ \A r1 \in RowsWrittenFor(n) : \A r2 \in RowsWrittenFor(n) :
              r1 # r2 => r1.member_dot_numbers \cap r2.member_dot_numbers = {}
        /\ UNION {r.member_dot_numbers : r \in RowsWrittenFor(n)}
              = {x.dot_number : x \in JoinedRows(n)}

\* a run has committed, for one officer name, a cluster of three carriers
\* and more next to a cluster of a single carrier
PartitionWitness ==
    /\ cpc = "done"
    /\ \E n \in processed :
          /\ \E r \in RowsWrittenFor(n) : r.carrier_count >= 3
          /\ \E r \in RowsWrittenFor(n) : r.carrier_count = 1

\* the carriers joined to the officer name n
DotsJoined(n) ==
    {r.dot_number : r \in JoinedRows(n)}

\* the carriers a and b of the officer name n share a phone of seven
\* characters and more, an email address with an "@" up to its case, an
\* address identifier, or an officer of another name
SharesSignal(n, a, b) ==
    \/ \E ra \in JoinedRows(n), rb \in JoinedRows(n) :
          /\ ra.dot_number = a /\ rb.dot_number = b
          /\ \/ /\ ra.phone \notin {NullText, ""}
                /\ Len(ra.phone) >= 7
                /\ ra.phone = rb.phone
             \/ /\ ra.email \notin {NullText, ""} /\ rb.email \notin {NullText, ""}
                /\ HasAt(ra.email) /\ HasAt(rb.email)
                /\ Lower(ra.email) = Lower(rb.email)
             \/ /\ ra.address_hash \notin {NullText, ""}
                /\ ra.address_hash = rb.address_hash
    \/ \E x \in carrier_principals, y \in carrier_principals :
          /\ x.dot_number = a /\ y.dot_number = b
          /\ x.officer_name_normalized = y.officer_name_normalized
          /\ x.officer_name_normalized # n

\* the link graph of the officer name n
LinkEdges(n) ==
    {e \in DotsJoined(n) \X DotsJoined(n) : e[1] < e[2] /\ SharesSignal(n, e[1], e[2])}

\* a row written for the officer name n has both carriers among its members
InSameCluster(n, a, b) ==
    \E r \in RowsWrittenFor(n) : a \in r.member_dot_numbers /\ b \in r.member_dot_numbers

\* C19: clusters are the connected components of the link graph.  For every
\* officer name the run has clustered, two carriers of the name are members
\* of the same row written for it if and only if a chain of pairs, each
\* sharing a phone, an email address, an address identifier or a co-officer,
\* joins them.
ClustersAreComponents ==
    \A n \in processed :
        \A a \in DotsJoined(n) : \A b \in DotsJoined(n) :
            InSameCluster(n, a, b) <=> b \in ReachedFrom({a}, LinkEdges(n))

\* a run is done for an officer of carriers 1 to 4, of which 1 and 2 share
\* a phone and nothing else and 3 and 4 an address and no phone: the rows of
\* the officer are the cluster {1, 2} with the signal phone and the cluster
\* {3, 4} with the signal address
ClustersAreComponentsWitness ==
    /\ cpc = "done"
    /\ \E n \in processed :
          /\ DotsJoined(n) = 1..4
          /\ LinkEdges(n) = {<<1, 2>>, <<3, 4>>}
          /\ carriers[1].address_hash # carriers[2].address_hash
          /\ {r.member_dot_numbers : r \in RowsWrittenFor(n)} = {{1, 2}, {3, 4}}
          /\ \E r \in RowsWrittenFor(n) :
                r.member_dot_numbers = {1, 2} /\ r.link_signals = {"phone"}
          /\ \E r \in RowsWrittenFor(n) :
                r.member_dot_numbers = {3, 4} /\ "address" \in r.link_signals

\* the officer names of the census file with two joined carriers and more
NamesToCluster ==
    {n \in {cp.officer_name_normalized : cp \in carrier_principals} :
        Cardinality(JoinedRows(n)) >= 2}

\* what find_links returns for the officer name n
LinksOf(n) ==
    FindLinks(JoinedRows(n),
              OfficerCoMap(SortedSeq(DotsJoined(n))), n)

StrongSignals ==
    {"phone", "email", "address", "co_officer"}

\* C20: same_state is never sufficient alone.  Every pair find_links returns
\* for an officer name carries at least one of phone, email, address and
\* co_officer, and the signals of every cluster of two carriers and more
\* written for a name hold one of them.
SameStateNeverAlone ==
    /\ \A n \in NamesToCluster :
          \A l \in LinksOf(n) : l.sigs \cap StrongSignals # {}
    /\ \A n \in processed :
          \A r \in RowsWrittenFor(n) :
              r.carrier_count >= 2 => r.link_signals \cap StrongSignals # {}

\* a run is done for an officer of whose carriers two share an address and
\* the state, a pair that carries same_state with address, and two share
\* the state and nothing else, and sit in different clusters
SameStateNeverAloneWitness ==
    /\ cpc = "done"
    /\ \E n \in processed :
          /\ \E l \in LinksOf(n) : {"address", "same_state"} \subseteq l.sigs
          /\ \E a \in DotsJoined(n) : \E b \in DotsJoined(n) :
                /\ a # b
                /\ carriers[a].physical_state # NullText
                /\ carriers[a].physical_state = carriers[b].physical_state
                /\ ~SharesSignal(n, a, b)
                /\ ~InSameCluster(n, a, b)

-----------------------------------------------------------------------------
\* "if len(members) >= 2 and signals_used != {"name_only"}": the test under
\* which main counts a cluster as confirmed
Confirmed(r) ==
    r.carrier_count >= 2 /\ r.link_signals # {"name_only"}

\* C21: name_only labelling and confirmation.  Every row written for an
\* officer name has one member at least; a row of one member has exactly
\* the signal set {name_only}; a row of two members and more holds one of
\* phone, email, address and co_officer and never name_only; hence a row
\* counts as confirmed exactly when it has two members and more.
NameOnlyLabelling ==
    \A n \in processed :
        \A r \in RowsWrittenFor(n) :
            /\ r.carrier_count = Cardinality(r.member_dot_numbers)
            /\ r.carrier_count >= 1
            /\ r.carrier_count = 1 => r.link_signals = {"name_only"}
            /\ r.carrier_count >= 2 =>
                  /\ r.link_signals \cap StrongSignals # {}
                  /\ "name_only" \notin r.link_signals
            /\ Confirmed(r) <=> r.carrier_count >= 2

\* a run is done for an officer name with a cluster of a single carrier,
\* labelled name_only although that carrier shares the state with another
\* carrier of the name, next to a cluster of two carriers and more that
\* counts as confirmed
NameOnlyLabellingWitness ==
    /\ cpc = "done"
    /\ \E n \in processed :
          /\ \E r \in RowsWrittenFor(n) :
                /\ r.carrier_count = 1
                /\ r.link_signals = {"name_only"}
                /\ \E a \in r.member_dot_numbers : \E b \in DotsJoined(n) \ {a} :
                      /\ carriers[a].physical_state # NullText
                      /\ carriers[a].physical_state = carriers[b].physical_state
          /\ \E r \in RowsWrittenFor(n) : r.carrier_count >= 2 /\ Confirmed(r)

-----------------------------------------------------------------------------
\* officer name, member set and signal set of a cluster row
RowContent(r) ==
    [officer_name_normalized |-> r.officer_name_normalized,
     member_dot_numbers |-> r.member_dot_numbers,
     link_signals |-> r.link_signals]

\* the carriers a chain of linked pairs joins to carrier a of the name n
ComponentOf(n, a) ==
    ReachedFrom({a}, LinkEdges(n))

\* the cluster rows the data call for under the officer name n, whatever
\* the batches: one per connected component of its link graph, with the
\* signals of the links that touch the component, or name_only
RowsCalledFor(n) ==
    IF Cardinality(JoinedRows(n)) < 2 THEN {}
    ELSE {[officer_name_normalized |-> n,
           member_dot_numbers |-> ComponentOf(n, a),
           link_signals |->
              IF Cardinality(ComponentOf(n, a)) = 1 THEN {"name_only"}
              ELSE UNION {l.sigs : l \in {x \in LinksOf(n) :
                             x.a \in ComponentOf(n, a) \/ x.b \in ComponentOf(n, a)}}] :
             a \in DotsJoined(n)}

\* C26: batch-size independence of the cluster resolver.  Whatever the
\* batch size of a run, the set of cluster rows its complete run has
\* written, taken as officer name, member set and signal set, is the one
\* the carrier and affiliation data call for under the officer names the run
\* fetched.
BatchSizeIndependence ==
    cpc = "done" =>
        {RowContent(r) : r \in officer_network_clusters}
           = UNION {RowsCalledFor(n) : n \in Range(officers)}

\* a run with a batch of two officers is done: it fetched two officers and
\* more, wrote rows for two names and the rows of a name whose carriers
\* share a co-officer of the same batch
BatchSizeIndependenceWitness ==
    /\ cpc = "done"
    /\ batch_size >= 2
    /\ Len(officers) >= 2
    /\ Cardinality({r.officer_name_normalized : r \in officer_network_clusters}) >= 2
    /\ \E r \in officer_network_clusters : "co_officer" \in r.link_signals

-----------------------------------------------------------------------------
\* the committed rows of the officer name n
RowsCommittedFor(n) ==
    {r \in officer_network_clusters : r.officer_name_normalized = n}

\* C30: per-name atomic visibility.  In every committed state of a resolver
\* run, after the TRUNCATE and after the commit of each batch, the cluster
\* table holds for each officer name either no row or all the clusters of
\* the name, which together hold every carrier of the name: no reader sees
\* a part of the partition of an officer's carriers.
PerNameAtomicVisibility ==
    \A n \in {cp.officer_name_normalized : cp \in carrier_principals} :
        \/ RowsCommittedFor(n) = {}
        \/ /\ {RowContent(r) : r \in RowsCommittedFor(n)} = RowsCalledFor(n)
           /\ UNION {r.member_dot_numbers : r \in RowsCommittedFor(n)} = DotsJoined(n)

\* between two batches of a run: the table holds the two clusters and more
\* of an officer of the committed batch and no row yet of an officer the
\* run has still to cluster
PerNameAtomicVisibilityWitness ==
    /\ cpc = "batch"
    /\ batch_start > 0
    /\ \E n \in processed : Cardinality(RowsCommittedFor(n)) >= 2
    /\ \E i \in (batch_start + 1)..Len(officers) :
          /\ RowsCalledFor(officers[i]) # {}
          /\ RowsCommittedFor(officers[i]) = {}

-----------------------------------------------------------------------------
(* Properties of the chameleon detector.                                   *)

\* C12: chameleon pair eligibility.  From the TRUNCATE of a detector run to
\* the next change of the census, every row of chameleon_pairs, whichever
\* step seeded it, has a predecessor other than its successor, a predecessor
\* whose status code is known and not 'A', a successor whose status begins
\* with AUTHORIZED, the two grant dates of the carriers as its dates, the
\* successor's strictly after the predecessor's, and their difference, at
\* most 365 days, as its gap.
PairEligibility ==
    hpc # "idle" =>
        \A r \in chameleon_pairs :
            /\ r.predecessor_dot # r.successor_dot
            /\ carriers[r.predecessor_dot].operating_status_code \notin {NullText, "A"}
            /\ IsAuthorized(carriers[r.successor_dot].operating_status)
            /\ r.deactivation_date = carriers[r.predecessor_dot].authority_grant_date
            /\ r.activation_date = carriers[r.successor_dot].authority_grant_date
            /\ r.deactivation_date # NullDate
            /\ r.activation_date > r.deactivation_date
            /\ r.days_gap = r.activation_date - r.deactivation_date
            /\ r.days_gap <= 365

\* a finished run left a pair seeded by address whose gap is 365 days next
\* to a pair seeded by officer
PairEligibilityWitness ==
    /\ hpc = "done"
    /\ \E r \in chameleon_pairs : r.match_signals[1] = "address" /\ r.days_gap = 365
    /\ \E r \in chameleon_pairs : r.match_signals[1] = "officer"

\* what the carriers p and s share: the address identifier, an officer name,
\* a phone that is not empty
SharedSignals(p, s) ==
    {sig \in {"address", "officer", "phone"} :
        \/ /\ sig = "address"
           /\ carriers[p].address_hash # NullText
           /\ carriers[p].address_hash = carriers[s].address_hash
        \/ /\ sig = "officer"
           /\ \E n \in {x.officer_name_normalized : x \in carrier_principals} \ {NullText} :
                 /\ \E x \in carrier_principals :
                       x.dot_number = p /\ x.officer_name_normalized = n
                 /\ \E x \in carrier_principals :
                       x.dot_number = s /\ x.officer_name_normalized = n
        \/ /\ sig = "phone"
           /\ carriers[p].phone \notin {NullText, ""}
           /\ carriers[p].phone = carriers[s].phone}

\* the rows of the pair table for the pair (p, s)
RowsOfPair(p, s) ==
    {r \in chameleon_pairs : r.predecessor_dot = p /\ r.successor_dot = s}

\* the row r carries exactly the signals of the set S, each once, counts
\* them, and has the confidence of their number
CarriesExactly(r, S) ==
    /\ Range(r.match_signals) = S
    /\ Len(r.match_signals) = Cardinality(S)
    /\ r.signal_count = Cardinality(S)
    /\ r.confidence = CASE Cardinality(S) = 1 -> "low"
                         [] Cardinality(S) = 2 -> "medium"
                         [] Cardinality(S) = 3 -> "high"
                         [] OTHER -> "none"

\* the detection of a run is over
Detected ==
    hpc \in {"successors", "predecessors", "done"}

PairKeys(t) ==
    {<<r.predecessor_dot, r.successor_dot>> : r \in t}

\* C14: chameleon pair uniqueness.  In every state the pair table holds at
\* most one row per (predecessor, successor); the officer seeding step adds
\* rows only for pairs that had none and leaves the rows it found; the merge
\* steps and the confidence step leave the pairs and the number of rows as
\* they were.
PairUniqueness ==
    /\ [](Cardinality(chameleon_pairs) = Cardinality(PairKeys(chameleon_pairs)))
    /\ [][/\ hpc = "officer" =>
               /\ chameleon_pairs \subseteq chameleon_pairs'
               /\ PairKeys(chameleon_pairs' \ chameleon_pairs)
                     \cap PairKeys(chameleon_pairs) = {}
          /\ hpc \in {"merge_officer", "merge_phone", "confidence"} =>
               /\ PairKeys(chameleon_pairs') = PairKeys(chameleon_pairs)
               /\ Cardinality(chameleon_pairs') = Cardinality(chameleon_pairs)]_vars

\* the officer merge has run: a pair seeded by address whose carriers share
\* an officer holds the two signals in its one row, next to a pair seeded
\* by officer
PairUniquenessWitness ==
    /\ hpc = "merge_phone"
    /\ \E r \in chameleon_pairs : r.match_signals = <<"address", "officer">>
    /\ \E r \in chameleon_pairs : r.match_signals = <<"officer">>

\* the pairs of the table with confidence medium or high
ConfidentPairs ==
    {r \in chameleon_pairs : r.confidence \in {"medium", "high"}}

\* C15: chameleon flags.  When a detector run is over, every successor of a
\* medium or high pair holds CHAMELEON_SUCCESSOR and every predecessor of
\* such a pair holds CHAMELEON_PREDECESSOR; in every state of every run and
\* re-run a carrier holds each of the two flags at most once; and every step
\* changes a carrier's score by 30 for each CHAMELEON_SUCCESSOR and 20 for
\* each CHAMELEON_PREDECESSOR it gains, and by nothing else.
ChameleonFlags ==
    /\ [](hpc = "done" =>
            \A r \in ConfidentPairs :
                /\ AnyEq("CHAMELEON_SUCCESSOR", Flags(r.successor_dot))
                /\ AnyEq("CHAMELEON_PREDECESSOR", Flags(r.predecessor_dot)))
    /\ [](\A c \in Carriers :
            /\ Times("CHAMELEON_SUCCESSOR", Flags(c)) <= 1
            /\ Times("CHAMELEON_PREDECESSOR", Flags(c)) <= 1)
    /\ [][\A c \in Carriers :
            Coalesce(risk_score'[c], 0) - Coalesce(risk_score[c], 0)
              = 30 * (Times("CHAMELEON_SUCCESSOR", Coalesce(risk_flags'[c], <<>>))
                        - Times("CHAMELEON_SUCCESSOR", Flags(c)))
                + 20 * (Times("CHAMELEON_PREDECESSOR", Coalesce(risk_flags'[c], <<>>))
                          - Times("CHAMELEON_PREDECESSOR", Flags(c)))]_vars

\* a detector run that was not the first job is over: a carrier that is the
\* successor of two medium or high pairs holds CHAMELEON_SUCCESSOR once and
\* 30 points, and a carrier that is successor of one such pair and
\* predecessor of another holds both flags and 50 points
ChameleonFlagsWitness ==
    /\ hpc = "done"
    /\ jobs >= 2
    /\ \E c \in Carriers :
          /\ Cardinality({r \in ConfidentPairs : r.successor_dot = c}) >= 2
          /\ Flags(c) = <<"CHAMELEON_SUCCESSOR">>
          /\ risk_score[c] = Some(30)
    /\ \E c \in Carriers :
          /\ c \in ChameleonSuccessors(chameleon_pairs) \cap ChameleonPredecessors(chameleon_pairs)
          /\ Flags(c) = <<"CHAMELEON_SUCCESSOR", "CHAMELEON_PREDECESSOR">>
          /\ risk_score[c] = Some(50)

-----------------------------------------------------------------------------
\* the row r2 is the row r with the same signals or more
Upgrades(r, r2) ==
    /\ r2.predecessor_dot = r.predecessor_dot
    /\ r2.successor_dot = r.successor_dot
    /\ Range(r.match_signals) \subseteq Range(r2.match_signals)
    /\ r2.signal_count >= r.signal_count

\* C28: chameleon signal bookkeeping.  After the TRUNCATE and after each of
\* the steps of a detector run, the match_signals of every pair hold
\* address, officer and phone only and none of them twice, and its
\* signal_count is their number; no step after the TRUNCATE removes a pair,
\* a signal of a pair, or lowers its signal_count.
SignalBookkeeping ==
    /\ [](\A r \in chameleon_pairs :
             /\ Range(r.match_signals) \subseteq {"address", "officer", "phone"}
             /\ Cardinality(Range(r.match_signals)) = Len(r.match_signals)
             /\ r.signal_count = Len(r.match_signals)
             /\ r.signal_count >= 1)
    /\ [][hpc' # "address" =>
             \A r \in chameleon_pairs : \E r2 \in chameleon_pairs' : Upgrades(r, r2)]_vars

\* steps 1 to 4 are done: a pair seeded by the address has gained the
\* officer and the phone, a pair seeded by the officer has gained the phone
\* and carries no address
SignalBookkeepingWitness ==
    /\ hpc = "confidence"
    /\ \E r \in chameleon_pairs :
          r.match_signals = <<"address", "officer", "phone">> /\ r.signal_count = 3
    /\ \E r \in chameleon_pairs :
          r.match_signals = <<"officer", "phone">> /\ r.signal_count = 2

-----------------------------------------------------------------------------
\* C29: chameleon pair antisymmetry.  The pair table never holds a pair
\* together with its reverse, and no pair of a carrier with itself: the
\* activation date of every row is strictly after its deactivation date.
PairAntisymmetry ==
    /\ \A r1 \in chameleon_pairs : \A r2 \in chameleon_pairs :
          ~(r1.predecessor_dot = r2.successor_dot /\ r1.successor_dot = r2.predecessor_dot)
    /\ \A r \in chameleon_pairs :
          /\ r.activation_date # NullDate
          /\ r.deactivation_date # NullDate
          /\ r.activation_date > r.deactivation_date

\* a run is done with a pair of two carriers at one address that are both
\* inactive by their code and both of an authorized status: each could be
\* the predecessor of the other but for the order of the two grant dates
PairAntisymmetryWitness ==
    /\ hpc = "done"
    /\ \E r \in chameleon_pairs :
          /\ carriers[r.successor_dot].operating_status_code \notin {NullText, "A"}
          /\ IsAuthorized(carriers[r.predecessor_dot].operating_status)
          /\ carriers[r.predecessor_dot].address_hash = carriers[r.successor_dot].address_hash
          /\ carriers[r.successor_dot].authority_grant_date
                - carriers[r.predecessor_dot].authority_grant_date \in 1..MAX_GAP_DAYS
          /\ ~HasPair(chameleon_pairs, r.successor_dot, r.predecessor_dot)

-----------------------------------------------------------------------------
(* Properties of the confidence tiers.                                     *)

\* low < medium < high
TierRank(confidence) ==
    CASE confidence = "low" -> 1
      [] confidence = "medium" -> 2
      [] confidence = "high" -> 3

\* C18: confidence monotonicity.  Of two chameleon pairs the one with the
\* greater signal_count has a confidence at least as high; of two fraud
\* rings with the same crash and fatality totals the one with the greater
\* carrier count has a confidence at least as high.
ConfidenceMonotonicity ==
    tier_out # Null =>
        /\ tier_in[1].signal_count[1] <= tier_in[1].signal_count[2] =>
              TierRank(tier_out[1].chameleon[1]) <= TierRank(tier_out[1].chameleon[2])
        /\ tier_in[1].carrier_count[1] <= tier_in[1].carrier_count[2] =>
              TierRank(tier_out[1].ring[1]) <= TierRank(tier_out[1].ring[2])

\* one signal against three and four carriers against ten, with a fatality
\* and no crash above the threshold: low against high both times
ConfidenceMonotonicityWitness ==
    /\ tier_out # Null
    /\ tier_in[1].signal_count = <<1, 3>>
    /\ tier_out[1].chameleon = <<"low", "high">>
    /\ tier_in[1].carrier_count = <<4, 10>>
    /\ tier_in[1].total_crashes = 0
    /\ tier_in[1].total_fatalities = 1
    /\ tier_out[1].ring = <<"low", "high">>

-----------------------------------------------------------------------------
(* Properties of the pair loops.                                           *)

\* the carriers the pairs ps pair the carrier d with
Partners(d, ps) ==
    {x \in 1..MaxGroupSize : <<d, x>> \in ps \/ <<x, d>> \in ps} \ {d}

\* C22: pair generation is capped.  Within one group, of one phone, email
\* address, address identifier, co-officer, state or officer identity, every
\* carrier is paired with at most 50 partners, and a group of n carriers
\* generates at most 50 * n pairs.
PairGenerationCapped ==
    pairs_out # Null =>
        /\ \A d \in 1..group_in[1].size :
              Cardinality(Partners(d, pairs_out[1])) <= PairWindow
        /\ Cardinality(pairs_out[1]) <= PairWindow * group_in[1].size

-----------------------------------------------------------------------------
(* Properties of the ledger columns under their three writers.             *)

\* the fixed point value of a flag: those of the rules of the ledger, of
\* apply_chameleon_risk_flags and of apply_fraud_ring_flags
FlagPoints(flag) ==
    IF \E i \in 1..NumRules : Rules[i].flag = flag
    THEN Rules[CHOOSE i \in 1..NumRules : Rules[i].flag = flag].points
    ELSE IF flag = "CHAMELEON_SUCCESSOR" THEN 30
    ELSE IF flag = "CHAMELEON_PREDECESSOR" THEN 20
    ELSE IF flag = "FRAUD_RING" THEN 25
    ELSE 0

KnownFlags ==
    {Rules[i].flag : i \in 1..NumRules}
       \cup {"CHAMELEON_SUCCESSOR", "CHAMELEON_PREDECESSOR", "FRAUD_RING"}

\* the sum of the point values of the flags carrier c holds
PointsHeld(c) ==
    SetSum([i \in 1..Len(Flags(c)) |-> FlagPoints(Flags(c)[i])], 1..Len(Flags(c)))

\* C27: score/flag consistency.  From a reset ledger on, in every committed
\* state of any sequence of ledger runs, chameleon flag steps and fraud ring
\* flag steps, chunk by chunk, the risk_flags of every carrier hold known
\* flags and none twice, and its risk_score is the sum of the point values
\* of the flags it holds: no reader sees a flag without its points or points
\* without their flag.
ScoreFlagConsistency ==
    \A c \in Carriers :
        /\ Range(Flags(c)) \subseteq KnownFlags
        /\ Cardinality(Range(Flags(c))) = Len(Flags(c))
        /\ Coalesce(risk_score[c], 0) = PointsHeld(c)

\* a carrier holds a flag of the ledger, a chameleon flag and the fraud ring
\* flag, while a ledger run is in the middle of a rule's chunks
ScoreFlagConsistencyWitness ==
    /\ lpc = "rules"
    /\ \E c \in Carriers :
          /\ "FRAUD_RING" \in Range(Flags(c))
          /\ {"CHAMELEON_SUCCESSOR", "CHAMELEON_PREDECESSOR"} \cap Range(Flags(c)) # {}
          /\ \E i \in 1..NumRules : Rules[i].flag \in Range(Flags(c))
          /\ risk_score[c] # Null /\ risk_score[c][1] >= 25 + 20 + 10
    /\ \E c \in Carriers, d \in Carriers :
          /\ Rules[rule_idx].flag \in Range(Flags(c))
          /\ Candidate(rule_idx, d)

====
